---------------------------- MODULE Spec2Model ----------------------------
(***************************************************************************)
(* Position simulation and compounding engine of makoban/swing.            *)
(*                                                                         *)
(* The repository is a family of scripts that all run the same FLAT/OPEN   *)
(* position state machine: the live swing runner (main.check_and_execute), *)
(* the two live day-trade runners (main.check_daytrade and                 *)
(* main_daytrade.check_and_execute, which share the sim_daytrade_* tables),*)
(* the daily backtests (compound_backtest, oanda_backtest), the filter and  *)
(* strategy comparisons (trend_filter_test, active_strategy_test) and the  *)
(* session backtests (scalp_backtest, daytrade_optimize, leverage_test,    *)
(* total_optimize).  The variable `script` says which of them this run is. *)
(*                                                                         *)
(* Number representation.  The code computes with Python floats; the model *)
(* computes the same expressions exactly over scaled integers:             *)
(*   - prices are in 1/1000 yen (0.004 yen spread = 4, 100.5 yen = 100500),*)
(*   - money is in 1/24 yen, so that the hourly swap SWAP_LONG / 24 of     *)
(*     main.calculate_swap is exact; Yen(x) is x yen in that unit.         *)
(***************************************************************************)
EXTENDS Integers, Sequences, FiniteSets

VARIABLES
    script,                 \* which program of the repository is running
    steps,                  \* live: invocations so far; backtests: loop index i
    now,                    \* live: wall clock of the latest invocation [weekday, hour] (JST)
    market,                 \* live: what the latest market fetch returned (<<>> = None), and to whom
    action,                 \* the local `action` of the latest step (or why it returned early)
    sim_config,             \* swing: rows of table sim_config
    sim_positions,          \* swing: rows of table sim_positions
    sim_trade_history,      \* swing: rows of table sim_trade_history
    sim_equity_log,         \* swing: rows of table sim_equity_log
    sim_daytrade_config,    \* day trade: rows of table sim_daytrade_config
    sim_daytrade_positions, \* day trade: rows of table sim_daytrade_positions
    sim_daytrade_history,   \* day trade: rows of table sim_daytrade_history
    cash,                   \* backtests: cash
    position,               \* backtests: 0 (FLAT) or 1 (OPEN)
    current_lot,            \* backtests: units of the open position (current_lot / current_units)
    buy_price,              \* backtests: entry fill price (buy_price / entry_price)
    bar,                    \* backtests: the bar being processed (price, signal or hour)
    closes,                 \* backtests: the closes read so far (window), or the whole data set
    trades,                 \* backtests: the trade log
    equity_curve,           \* backtests: the equity curve
    entry_balance,          \* history: cash balance at the step that opened the latest position
    swap_accrued,           \* history: sum of the per-step swap accruals of the latest position
    procs                   \* overlapping live invocations: each one's position and what it read

liveVars  == <<now, market, sim_config, sim_positions, sim_trade_history, sim_equity_log,
               sim_daytrade_config, sim_daytrade_positions, sim_daytrade_history>>
swingTables == <<sim_config, sim_positions, sim_trade_history, sim_equity_log>>
dayTables == <<sim_daytrade_config, sim_daytrade_positions, sim_daytrade_history>>
btVars    == <<cash, position, current_lot, buy_price, bar, closes, trades, equity_curve>>
histVars  == <<entry_balance, swap_accrued>>
vars      == <<script, steps, action, liveVars, btVars, histVars, procs>>

-----------------------------------------------------------------------------
(* Bounds of the model *)

\* live: at most this many invocations of a runner in one behaviour
MaxInvocations == 3
\* backtests: the data set has this many bars
MaxBars == 5

\* USD/JPY closes offered by the feed, in 1/1000 yen
Prices == {99800, 100000, 100500}

\* wall-clock instants (JST weekday, Monday = 0, and hour) an invocation may run at
Times == { [weekday |-> 2, hour |-> 6],  [weekday |-> 2, hour |-> 10],
           [weekday |-> 2, hour |-> 17], [weekday |-> 2, hour |-> 18],
           [weekday |-> 6, hour |-> 10], [weekday |-> 5, hour |-> 7],
           [weekday |-> 5, hour |-> 6],  [weekday |-> 0, hour |-> 6] }

-----------------------------------------------------------------------------
(* Program constants *)

HoursPerDay       == 24          \* main.calculate_swap: SWAP_LONG / 24
INITIAL_CAPITAL   == 1000000
SPREAD_YEN        == 4           \* 0.004 yen
SWAP_LONG         == 100         \* yen per 10,000 units per day
LOT_RATIO_PCT     == 2           \* LOT_RATIO = 0.02
MIN_UNITS         == 10000
MAX_UNITS         == 100000

Yen(x) == x * HoursPerDay

\* (price difference in 1/1000 yen) * units, as money
Jpy(diff, units) == diff * (units \div 1000) * HoursPerDay

Max2(a, b) == IF a >= b THEN a ELSE b
Min2(a, b) == IF a <= b THEN a ELSE b

Last(s) == s[Len(s)]

RECURSIVE SumSeq(_)
SumSeq(s) == IF s = <<>> THEN 0 ELSE Head(s) + SumSeq(Tail(s))

-----------------------------------------------------------------------------
(* PositionSizer *)

\* raw_lot = balance * ratio; lot = int(raw_lot // 10000) * 10000
RoundLot(balance, pct) == ((balance * pct) \div (100 * 10000 * HoursPerDay)) * 10000

\* main.calculate_lot, with the mistake of leaving out the MAX_UNITS cap
calculate_lot_nocap(balance) == Max2(RoundLot(balance, LOT_RATIO_PCT), MIN_UNITS)

\* main.calculate_lot
calculate_lot(balance) ==
    LET lot  == RoundLot(balance, LOT_RATIO_PCT)
        lot1 == Max2(lot, MIN_UNITS)
        lot2 == Min2(lot1, MAX_UNITS)
    IN  lot2

\* The balances the sizer is applied to: every quarter of a million yen up to
\* MaxSizerK quarters, and the amounts 1/24 yen below and above each
MaxSizerK == 24
SizerBalances ==
    { b \in { Yen(k * 250000) + d : k \in 0..MaxSizerK, d \in {0 - 1, 0, 1} } : b >= 0 }

\* calculate_lot(balance) applied to one balance
SizeBalance(b) ==
    /\ script = "sizer"
    /\ steps = 0
    /\ steps' = 1
    /\ cash' = b
    /\ current_lot' = calculate_lot(b)
    /\ action' = "SIZED"
    /\ UNCHANGED <<script, liveVars, position, buy_price, bar, closes, trades,
                   equity_curve, histVars, procs>>

-----------------------------------------------------------------------------
(* Live swing runner: main.py *)

\* is_market_open: Monday 07:00 to Saturday 07:00 JST
is_market_open(t) ==
    IF t.weekday = 6 THEN FALSE
    ELSE IF t.weekday = 5 /\ t.hour >= 7 THEN FALSE
    ELSE IF t.weekday = 0 /\ t.hour < 7 THEN FALSE
    ELSE TRUE

\* What the two yfinance calls of get_market_data may return: the number of TNX
\* daily closes, whether the last close is above the one before and above the
\* 20-day mean, the number of USD/JPY rows and the USD/JPY close.
Feeds ==
    [tnx_len : {21}, tnx_up : BOOLEAN, above_ma20 : BOOLEAN, usdjpy_len : {1}, close : Prices]
    \cup [tnx_len : {20}, tnx_up : {TRUE}, above_ma20 : {TRUE}, usdjpy_len : {1}, close : {100000}]
    \cup [tnx_len : {21}, tnx_up : {TRUE}, above_ma20 : {TRUE}, usdjpy_len : {0}, close : {100000}]

\* get_market_data that goes on without a USD/JPY row
get_market_data_lenient(feed) ==
    IF feed.tnx_len < 21 THEN <<>>
    ELSE << [daily_signal |-> IF feed.tnx_up THEN "UP" ELSE "DOWN",
             usdjpy_price |-> feed.close,
             trend_ok     |-> feed.above_ma20] >>

\* get_market_data that reports the 20-day trend as always satisfied
get_market_data_unfiltered(feed) ==
    IF feed.tnx_len < 21 THEN <<>>
    ELSE IF feed.usdjpy_len = 0 THEN <<>>
    ELSE << [daily_signal |-> IF feed.tnx_up THEN "UP" ELSE "DOWN",
             usdjpy_price |-> feed.close,
             trend_ok     |-> TRUE] >>

\* get_market_data: <<>> stands for the all-None result
get_market_data(feed) ==
    IF feed.tnx_len < 21 THEN <<>>
    ELSE IF feed.usdjpy_len = 0 THEN <<>>
    ELSE << [daily_signal |-> IF feed.tnx_up THEN "UP" ELSE "DOWN",
             usdjpy_price |-> feed.close,
             trend_ok     |-> feed.above_ma20] >>

\* calculate_pnl that takes the spread off a second time
calculate_pnl_twice(entry_price, current_price, units) ==
    Jpy(current_price - entry_price - SPREAD_YEN - SPREAD_YEN, units)

\* calculate_pnl: long only, spread included
calculate_pnl(entry_price, current_price, units) ==
    Jpy(current_price - entry_price - SPREAD_YEN, units)

\* calculate_swap(units, hours)
calculate_swap(units, hours) == SWAP_LONG * (units \div 10000) * hours

\* get_current_position that never finds the open row
get_current_position_blind(tbl) == <<>>

\* SELECT ... WHERE status = 'OPEN' ORDER BY entry_time DESC LIMIT 1
\* (rows are kept in insertion order, which is entry_time order)
\* get_current_position without the WHERE status = 'OPEN': the latest row
get_current_position_any(tbl) == IF tbl = <<>> THEN <<>> ELSE << tbl[Len(tbl)] >>

OpenRows(tbl) == {k \in DOMAIN tbl : tbl[k].status = "OPEN"}
MaxOf(S) == CHOOSE x \in S : \A y \in S : y <= x
get_current_position(tbl) ==
    IF OpenRows(tbl) = {} THEN <<>> ELSE << tbl[MaxOf(OpenRows(tbl))] >>

\* SELECT * FROM sim_config LIMIT 1
get_config(tbl) == IF tbl = <<>> THEN <<>> ELSE << tbl[1] >>


\* SELECT COALESCE(SUM(unrealized_pnl + swap_total), 0) FROM sim_positions WHERE status = 'OPEN'
RECURSIVE SumOpenUnrealized(_)
SumOpenUnrealized(tbl) ==
    IF tbl = <<>> THEN 0
    ELSE (IF Head(tbl).status = "OPEN"
          THEN Head(tbl).unrealized_pnl + Head(tbl).swap_total ELSE 0)
         + SumOpenUnrealized(Tail(tbl))

\* An ENTRY insert that values the new position at zero
SwingEntryRow_flat(tbl, current_balance, usdjpy_price) ==
    [id |-> Len(tbl) + 1, direction |-> "BUY", entry_price |-> usdjpy_price,
     current_price |-> usdjpy_price, units |-> calculate_lot(current_balance),
     status |-> "OPEN", unrealized_pnl |-> 0, swap_total |-> 0]

\* The ENTRY insert of check_and_execute (lines 233-252)
SwingEntryRow(tbl, current_balance, usdjpy_price) ==
    LET trade_units == calculate_lot(current_balance)
        spread_cost == Jpy(SPREAD_YEN, trade_units)
    IN  [id |-> Len(tbl) + 1, direction |-> "BUY", entry_price |-> usdjpy_price,
         current_price |-> usdjpy_price, units |-> trade_units, status |-> "OPEN",
         unrealized_pnl |-> 0 - spread_cost, swap_total |-> 0]

\* A HOLD branch that also banks the hourly swap
SwingHoldBalance_banked(balance, hourly_swap) == balance + hourly_swap

\* The balance the HOLD branch leaves in sim_config: it writes sim_positions only
SwingHoldBalance(balance, hourly_swap) == balance

\* An EXIT branch whose balance update is left out
SwingExitBalance_lost(balance, net_pnl) == balance

\* The balance the EXIT branch leaves: current_balance = current_balance + :pnl
SwingExitBalance(balance, net_pnl) == balance + net_pnl

\* An EXIT branch that closes the row and opens a new one in the same invocation
SwingClosePosition_reopen(positions, p, usdjpy_price, unrealized_pnl, new_swap_total) ==
    Append([positions EXCEPT ![p.id] =
               [@ EXCEPT !.status = "CLOSED",
                         !.current_price = usdjpy_price,
                         !.unrealized_pnl = unrealized_pnl,
                         !.swap_total = new_swap_total]],
           [id |-> Len(positions) + 1, direction |-> "BUY", entry_price |-> usdjpy_price,
            current_price |-> usdjpy_price, units |-> p.units, status |-> "OPEN",
            unrealized_pnl |-> 0 - Jpy(SPREAD_YEN, p.units), swap_total |-> 0])

\* An EXIT branch that records the trade and leaves the row as it was
SwingClosePosition_kept(positions, p, usdjpy_price, unrealized_pnl, new_swap_total) ==
    positions

\* The UPDATE sim_positions of the EXIT branch (lines 316-333)
SwingClosePosition(positions, p, usdjpy_price, unrealized_pnl, new_swap_total) ==
    [positions EXCEPT ![p.id] =
        [@ EXCEPT !.status = "CLOSED",
                  !.current_price = usdjpy_price,
                  !.unrealized_pnl = unrealized_pnl,
                  !.swap_total = new_swap_total]]

\* The decision and the write transaction of check_and_execute (lines 225-363),
\* given what the invocation read before: current_balance (line 207), the open
\* position pos (line 223, <<>> = None) and the market data m.  The result is the
\* three tables after the commit, the local `action` and the swap accrued.
SwingWrite(positions, history, config, current_balance, pos, m) ==
    IF pos = <<>>
    THEN IF m.daily_signal = "UP" /\ m.trend_ok
         THEN [positions |-> Append(positions,
                                    SwingEntryRow(positions, current_balance, m.usdjpy_price)),
               history |-> history, config |-> config, action |-> "ENTRY", accrual |-> 0]
         ELSE [positions |-> positions, history |-> history, config |-> config,
               action |-> "WAIT", accrual |-> 0]
    ELSE LET p              == pos[1]
             hourly_swap    == calculate_swap(p.units, 1)
             new_swap_total == p.swap_total + hourly_swap
             unrealized_pnl == calculate_pnl(p.entry_price, m.usdjpy_price, p.units)
         IN  IF m.daily_signal = "UP"
             THEN [positions |-> [positions EXCEPT ![p.id] =
                                     [@ EXCEPT !.current_price = m.usdjpy_price,
                                               !.unrealized_pnl = unrealized_pnl,
                                               !.swap_total = new_swap_total]],
                   history |-> history,
                   config |-> [k \in DOMAIN config |->
                                 [config[k] EXCEPT !.current_balance =
                                     SwingHoldBalance(@, hourly_swap)]],
                   action |-> "HOLD", accrual |-> hourly_swap]
             ELSE LET net_pnl     == unrealized_pnl + new_swap_total
                      spread_cost == Jpy(SPREAD_YEN, p.units)
                  IN  [positions |-> SwingClosePosition(positions, p, m.usdjpy_price,
                                                           unrealized_pnl, new_swap_total),
                       history |-> Append(history,
                                     [direction |-> "BUY", entry_price |-> p.entry_price,
                                      exit_price |-> m.usdjpy_price, units |-> p.units,
                                      gross_pnl |-> unrealized_pnl, spread_cost |-> spread_cost,
                                      swap_total |-> new_swap_total, net_pnl |-> net_pnl]),
                       config |-> [k \in DOMAIN config |->
                                     [config[k] EXCEPT !.current_balance =
                                         SwingExitBalance(@, net_pnl)]],
                       action |-> "EXIT", accrual |-> hourly_swap]

\* The equity sample of check_and_execute (lines 365-391); the tnx_value and
\* usdjpy_value columns are left out
SwingEquitySample(config, positions, current_balance) ==
    LET balance          == IF config = <<>> THEN current_balance
                            ELSE config[1].current_balance
        total_unrealized == SumOpenUnrealized(positions)
    IN  [balance |-> balance, equity |-> balance + total_unrealized,
         unrealized_pnl |-> total_unrealized]

\* main.check_and_execute, one whole invocation at wall clock t with market feed
CheckAndExecute(t, feed) ==
    /\ script = "swing"
    /\ steps < MaxInvocations
    /\ steps' = steps + 1
    /\ now' = t
    /\ UNCHANGED <<script, dayTables, btVars, procs>>
    /\ IF ~is_market_open(t)
       THEN /\ action' = "MARKET_CLOSED"
            /\ UNCHANGED <<market, swingTables, histVars>>
       ELSE IF get_config(sim_config) = <<>>
       THEN /\ action' = "NO_CONFIG"
            /\ UNCHANGED <<market, swingTables, histVars>>
       ELSE IF get_market_data(feed) = <<>>
       THEN /\ action' = "NO_DATA"
            /\ market' = <<>>
            /\ UNCHANGED <<swingTables, histVars>>
       ELSE LET current_balance == get_config(sim_config)[1].current_balance
                m   == get_market_data(feed)[1]
                pos == get_current_position(sim_positions)
                w   == SwingWrite(sim_positions, sim_trade_history, sim_config,
                                  current_balance, pos, m)
            IN  /\ market' = <<m>>
                /\ action' = w.action
                /\ sim_positions' = w.positions
                /\ sim_trade_history' = w.history
                /\ sim_config' = w.config
                /\ sim_equity_log' = Append(sim_equity_log,
                                        SwingEquitySample(w.config, w.positions, current_balance))
                /\ entry_balance' = IF w.action = "ENTRY" THEN current_balance
                                    ELSE entry_balance
                /\ swap_accrued' = IF w.action = "ENTRY" THEN 0
                                   ELSE swap_accrued + w.accrual

-----------------------------------------------------------------------------
(* Live day-trade runners: main.check_daytrade and main_daytrade.check_and_execute *)

DAYTRADE_TP             == 150   \* main.py: 0.15 yen
DAYTRADE_SL             == 200   \* main.py: 0.20 yen
DAYTRADE_LOT_RATIO_PCT  == 15    \* main.py: 0.15
DAYTRADE_START_HOUR     == 10
DAYTRADE_END_HOUR       == 18
TAKE_PROFIT             == 150   \* main_daytrade.py: 0.15 yen
STOP_LOSS               == 200   \* main_daytrade.py: 0.20 yen
MD_LOT_RATIO_PCT        == 15    \* main_daytrade.py: LOT_RATIO = 0.15
TRADE_START_HOUR        == 10
TRADE_END_HOUR          == 18
SPREAD                  == 4     \* main_daytrade.py: 0.004 yen

\* What yfinance may return to a day-trade runner: the number of rows of the daily
\* and of the hourly USD/JPY history, whether the last hourly close is more than
\* 0.02 yen above the close five rows earlier, and the latest close.
DayFeeds ==
    [daily_len : {1}, hourly_len : {6}, up : BOOLEAN, close : Prices]
    \cup [daily_len : {1}, hourly_len : {5}, up : {TRUE}, close : {100000, 100500}]
    \cup [daily_len : {0}, hourly_len : {6}, up : {TRUE}, close : {100000}]

\* main.calculate_daytrade_lot
calculate_daytrade_lot(balance) == Max2(RoundLot(balance, DAYTRADE_LOT_RATIO_PCT), 10000)

\* main.is_daytrade_hours
is_daytrade_hours(t) == DAYTRADE_START_HOUR <= t.hour /\ t.hour < DAYTRADE_END_HOUR

\* A forced-close test that never fires
is_force_close_time_never(t) == FALSE

\* main.is_force_close_time
is_force_close_time(t) == t.hour >= DAYTRADE_END_HOUR

\* main.get_daytrade_trend: <<>> stands for None
get_daytrade_trend(feed) ==
    IF feed.hourly_len < 6 THEN <<>>
    ELSE IF feed.up THEN <<"UP">> ELSE <<"DOWN">>

\* The exit arbitration of main.check_daytrade (lines 551-565) with take-profit
\* tested before the forced close
DaytradeExitAction_tp_first(pnl, t) ==
    IF pnl >= DAYTRADE_TP THEN "TAKE_PROFIT"
    ELSE IF is_force_close_time(t) THEN "FORCE_CLOSE"
    ELSE IF pnl <= 0 - DAYTRADE_SL THEN "STOP_LOSS"
    ELSE "None"

\* The exit arbitration of main.check_daytrade (lines 551-565)
DaytradeExitAction(pnl, t) ==
    IF is_force_close_time(t) THEN "FORCE_CLOSE"
    ELSE IF pnl >= DAYTRADE_TP THEN "TAKE_PROFIT"
    ELSE IF pnl <= 0 - DAYTRADE_SL THEN "STOP_LOSS"
    ELSE "None"

\* The balance a closing step of main.check_daytrade writes (line 568)
DaytradeNewBalance(current_balance, pnl_jpy) == current_balance + pnl_jpy

\* The decision and the writes of main.check_daytrade (lines 507-612), given what
\* it read before: current_balance and the open position pos (lines 472-493),
\* the price, and the feed the trend is taken from.
DaytradeWrite(positions, history, config, current_balance, pos, usdjpy_price, feed, t) ==
    IF pos = <<>>
    THEN IF ~is_daytrade_hours(t)
         THEN [positions |-> positions, history |-> history, config |-> config,
               action |-> "OUT_OF_HOURS"]
         ELSE IF get_daytrade_trend(feed) = <<"UP">>
         THEN LET trade_units == calculate_daytrade_lot(current_balance)
                  entry_price == usdjpy_price + SPREAD_YEN
              IN  [positions |-> Append(positions,
                       [id |-> Len(positions) + 1, direction |-> "BUY",
                        entry_price |-> entry_price, current_price |-> entry_price,
                        units |-> trade_units, status |-> "OPEN",
                        unrealized_pnl |-> 0 - Jpy(SPREAD_YEN, trade_units)]),
                   history |-> history, config |-> config, action |-> "ENTRY"]
         ELSE [positions |-> positions, history |-> history, config |-> config,
               action |-> "WAIT"]
    ELSE LET p       == pos[1]
             pnl     == usdjpy_price - p.entry_price
             pnl_jpy == Jpy(pnl, p.units)
             act     == DaytradeExitAction(pnl, t)
         IN  IF act # "None"
             THEN [positions |-> [positions EXCEPT ![p.id] =
                                     [@ EXCEPT !.status = "CLOSED",
                                               !.current_price = usdjpy_price,
                                               !.unrealized_pnl = pnl_jpy]],
                   config |-> [k \in DOMAIN config |->
                                 [config[k] EXCEPT !.current_balance =
                                     DaytradeNewBalance(current_balance, pnl_jpy)]],
                   history |-> Append(history,
                                 [direction |-> "BUY", entry_price |-> p.entry_price,
                                  exit_price |-> usdjpy_price, units |-> p.units,
                                  pnl |-> pnl_jpy, action |-> act]),
                   action |-> act]
             ELSE [positions |-> [positions EXCEPT ![p.id] =
                                     [@ EXCEPT !.current_price = usdjpy_price,
                                               !.unrealized_pnl = pnl_jpy]],
                   history |-> history, config |-> config, action |-> "HOLD"]

\* The body of main.check_daytrade run at wall clock t with market feed
CheckDaytradeRun(t, feed) ==
    /\ now' = t
    /\ UNCHANGED <<script, swingTables, btVars, procs, swap_accrued>>
    /\ IF ~is_market_open(t)
       THEN /\ action' = "MARKET_CLOSED"
            /\ UNCHANGED <<market, dayTables, entry_balance>>
       ELSE IF sim_daytrade_config = <<>>
       THEN /\ action' = "NO_CONFIG"
            /\ UNCHANGED <<market, dayTables, entry_balance>>
       ELSE IF feed.daily_len = 0
       THEN /\ action' = "NO_DATA"
            /\ market' = <<>>
            /\ UNCHANGED <<dayTables, entry_balance>>
       ELSE LET current_balance == sim_daytrade_config[1].current_balance
                pos == get_current_position(sim_daytrade_positions)
                w   == DaytradeWrite(sim_daytrade_positions, sim_daytrade_history,
                                     sim_daytrade_config, current_balance, pos,
                                     feed.close, feed, t)
            IN  /\ market' = << [usdjpy_price |-> feed.close,
                                 trend |-> get_daytrade_trend(feed),
                                 runner |-> "check_daytrade"] >>
                /\ action' = w.action
                /\ sim_daytrade_positions' = w.positions
                /\ sim_daytrade_history' = w.history
                /\ sim_daytrade_config' = w.config
                /\ entry_balance' = IF w.action = "ENTRY" THEN current_balance
                                    ELSE entry_balance

\* main.check_daytrade, one whole invocation
CheckDaytrade(t, feed) ==
    /\ script = "daytrade"
    /\ steps < MaxInvocations
    /\ steps' = steps + 1
    /\ CheckDaytradeRun(t, feed)

\* main_daytrade.calculate_lot
md_calculate_lot(balance) == Max2(RoundLot(balance, MD_LOT_RATIO_PCT), 10000)

\* main_daytrade.is_trading_hours
is_trading_hours(t) == TRADE_START_HOUR <= t.hour /\ t.hour < TRADE_END_HOUR

\* main_daytrade.is_force_close_time
md_is_force_close_time(t) == t.hour >= TRADE_END_HOUR

\* main_daytrade.get_trend: <<>> stands for (None, None)
get_trend(feed) ==
    IF feed.hourly_len < 6 THEN <<>>
    ELSE << [trend |-> IF feed.up THEN "UP" ELSE "DOWN", usdjpy_price |-> feed.close] >>

\* The exit arbitration of main_daytrade.check_and_execute (lines 184-197)
MdExitAction(pnl, t) ==
    IF md_is_force_close_time(t) THEN "FORCE_CLOSE"
    ELSE IF pnl >= TAKE_PROFIT THEN "TAKE_PROFIT"
    ELSE IF pnl <= 0 - STOP_LOSS THEN "STOP_LOSS"
    ELSE "None"

\* The balance a closing step of main_daytrade.check_and_execute writes (line 214)
MdNewBalance(current_balance, pnl_jpy) == current_balance + pnl_jpy

\* The decision and the writes of main_daytrade.check_and_execute (lines 145-246),
\* given what it read before (lines 118-133) and the market data m.
MdWrite(positions, history, config, current_balance, pos, m, t) ==
    IF pos = <<>>
    THEN IF ~is_trading_hours(t)
         THEN [positions |-> positions, history |-> history, config |-> config,
               action |-> "OUT_OF_HOURS"]
         ELSE IF m.trend = "UP"
         THEN LET trade_units == md_calculate_lot(current_balance)
                  entry_price == m.usdjpy_price + SPREAD
              IN  [positions |-> Append(positions,
                       [id |-> Len(positions) + 1, direction |-> "BUY",
                        entry_price |-> entry_price, current_price |-> entry_price,
                        units |-> trade_units, status |-> "OPEN",
                        unrealized_pnl |-> 0 - Jpy(SPREAD, trade_units)]),
                   history |-> history, config |-> config, action |-> "ENTRY"]
         ELSE [positions |-> positions, history |-> history, config |-> config,
               action |-> "WAIT"]
    ELSE LET p       == pos[1]
             pnl     == m.usdjpy_price - p.entry_price
             pnl_jpy == Jpy(pnl, p.units)
             act     == MdExitAction(pnl, t)
         IN  IF act # "None"
             THEN [positions |-> [positions EXCEPT ![p.id] =
                                     [@ EXCEPT !.status = "CLOSED",
                                               !.current_price = m.usdjpy_price,
                                               !.unrealized_pnl = pnl_jpy]],
                   config |-> [k \in DOMAIN config |->
                                 [config[k] EXCEPT !.current_balance =
                                     MdNewBalance(current_balance, pnl_jpy)]],
                   history |-> Append(history,
                                 [direction |-> "BUY", entry_price |-> p.entry_price,
                                  exit_price |-> m.usdjpy_price, units |-> p.units,
                                  pnl |-> pnl_jpy, action |-> act]),
                   action |-> act]
             ELSE [positions |-> [positions EXCEPT ![p.id] =
                                     [@ EXCEPT !.current_price = m.usdjpy_price,
                                               !.unrealized_pnl = pnl_jpy]],
                   history |-> history, config |-> config, action |-> "HOLD"]

\* The body of main_daytrade.check_and_execute run at wall clock t with market feed
MdCheckAndExecuteRun(t, feed) ==
    /\ now' = t
    /\ UNCHANGED <<script, swingTables, btVars, procs, swap_accrued>>
    /\ IF get_trend(feed) = <<>>
       THEN /\ action' = "NO_DATA"
            /\ market' = <<>>
            /\ UNCHANGED <<dayTables, entry_balance>>
       ELSE LET pos == get_current_position(sim_daytrade_positions)
                current_balance == IF sim_daytrade_config = <<>> THEN Yen(INITIAL_CAPITAL)
                                   ELSE sim_daytrade_config[1].current_balance
                m   == get_trend(feed)[1]
                w   == MdWrite(sim_daytrade_positions, sim_daytrade_history,
                               sim_daytrade_config, current_balance, pos, m, t)
            IN  /\ market' = << [usdjpy_price |-> m.usdjpy_price, trend |-> <<m.trend>>,
                                 runner |-> "check_and_execute"] >>
                /\ action' = w.action
                /\ sim_daytrade_positions' = w.positions
                /\ sim_daytrade_history' = w.history
                /\ sim_daytrade_config' = w.config
                /\ entry_balance' = IF w.action = "ENTRY" THEN current_balance
                                    ELSE entry_balance

\* main_daytrade.check_and_execute, one whole invocation
MdCheckAndExecute(t, feed) ==
    /\ script = "daytrade"
    /\ steps < MaxInvocations
    /\ steps' = steps + 1
    /\ MdCheckAndExecuteRun(t, feed)

-----------------------------------------------------------------------------
(* Compounding daily backtest: compound_backtest.run_compound_simulation *)

SWAP_PER_DAY     == 100      \* yen per 10,000 units per day
SAFETY_RATIO_PCT == 2        \* SAFETY_RATIO = 0.02
CB_SPREAD        == 4        \* compound_backtest.SPREAD = 0.004 yen

\* ^TNX closes offered by the data set (yield * 10)
TnxCloses == {40, 41, 42}

\* compound_backtest.calculate_lot: no upper cap
cb_calculate_lot(balance) == Max2(RoundLot(balance, SAFETY_RATIO_PCT), 10000)

\* data['Signal'].iloc[i] (lines 52-54): the sign of the TNX change of the day
\* before, <<>> for the NaN the shift leaves on the first row.  prev holds the
\* TNX closes of the rows before row i (the last two of them).
TodaySignal(prev, i) ==
    IF i = 0 THEN <<>>
    ELSE IF i = 1 THEN <<0>>
    ELSE IF prev[Len(prev)] - prev[Len(prev) - 1] > 0 THEN <<1>> ELSE <<0>>

LastN(s, n) == IF Len(s) <= n THEN s ELSE SubSeq(s, Len(s) - n + 1, Len(s))

\* A HOLD bar that defers the swap
CompoundHoldCash_deferred(c, daily_swap) == c

\* The cash a HOLD bar of the compounding backtest leaves (lines 93-95)
CompoundHoldCash(c, daily_swap) == c + daily_swap

\* A closing bar that also credits a day of swap
CompoundExitCash_with_swap(c, profit, daily_swap) == c + profit + daily_swap

\* The cash a closing bar of the compounding backtest leaves (lines 84-88)
CompoundExitCash(c, profit, daily_swap) == c + profit

\* An ENTER bar sized from the initial capital instead of the current cash
CompoundEntryLot_initial(c) == cb_calculate_lot(Yen(INITIAL_CAPITAL))

\* The units an ENTER bar of the compounding backtest takes (line 80)
CompoundEntryLot(c) == cb_calculate_lot(c)

\* An equity sample that leaves the open position's valuation out
CompoundEquity_cash(c, pos, price, bp, lot) == c

\* The equity sample of a bar (lines 97-103): cash plus the mark-to-market of
\* the open position
CompoundEquity(c, pos, price, bp, lot) ==
    IF pos = 1 THEN c + Jpy(price - bp, lot) ELSE c

\* One iteration of the loop of run_compound_simulation (lines 70-105) on the
\* bar (tnx, price)
CompoundBar(tnx, price) ==
    /\ script = "compound_backtest"
    /\ steps < MaxBars
    /\ steps' = steps + 1
    /\ UNCHANGED <<script, liveVars, procs, trades>>
    /\ LET today_signal == TodaySignal(closes, steps)
           daily_swap   == Yen(SWAP_PER_DAY * (current_lot \div 10000))
           profit       == Jpy(price - buy_price, current_lot)
       IN  /\ bar' = [price |-> price, tnx |-> tnx, today_signal |-> today_signal]
           /\ closes' = LastN(Append(closes, tnx), 2)
           /\ IF position = 0 /\ today_signal = <<1>>
              THEN /\ position' = 1
                   /\ current_lot' = CompoundEntryLot(cash)
                   /\ buy_price' = price + CB_SPREAD
                   /\ cash' = cash
                   /\ action' = "ENTRY"
                   /\ entry_balance' = cash
                   /\ swap_accrued' = 0
              ELSE IF position = 1 /\ today_signal = <<0>>
              THEN /\ position' = 0
                   /\ cash' = CompoundExitCash(cash, profit, daily_swap)
                   /\ current_lot' = 0
                   /\ buy_price' = 0
                   /\ action' = "EXIT"
                   /\ UNCHANGED histVars
              ELSE IF position = 1 /\ today_signal = <<1>>
              THEN /\ cash' = CompoundHoldCash(cash, daily_swap)
                   /\ action' = "HOLD"
                   /\ swap_accrued' = swap_accrued + daily_swap
                   /\ UNCHANGED <<position, current_lot, buy_price, entry_balance>>
              ELSE /\ action' = "WAIT"
                   /\ UNCHANGED <<cash, position, current_lot, buy_price, histVars>>
           /\ equity_curve' =
                 Append(equity_curve,
                        CompoundEquity(cash', position', price, buy_price', current_lot'))

-----------------------------------------------------------------------------
(* Fixed-lot daily backtest: oanda_backtest.run_oanda_simulation *)

LOT_SIZE        == 60000     \* oanda_backtest: fixed size
OB_SPREAD       == 4         \* oanda_backtest.SPREAD = 0.004 yen
OB_SWAP_PER_DAY == 100       \* oanda_backtest.SWAP_PER_DAY

\* One iteration of the loop of run_oanda_simulation (lines 57-100) on the bar
\* (tnx, price); the signal column is built as in compound_backtest
OandaBar(tnx, price) ==
    /\ script = "oanda_backtest"
    /\ steps < MaxBars
    /\ steps' = steps + 1
    /\ UNCHANGED <<script, liveVars, procs, trades, current_lot>>
    /\ LET today_signal == TodaySignal(closes, steps)
           daily_swap   == Yen(OB_SWAP_PER_DAY * (LOT_SIZE \div 10000))
           profit       == Jpy(price - buy_price, LOT_SIZE)
       IN  /\ bar' = [price |-> price, tnx |-> tnx, today_signal |-> today_signal]
           /\ closes' = LastN(Append(closes, tnx), 2)
           /\ IF position = 0 /\ today_signal = <<1>>
              THEN /\ position' = 1
                   /\ buy_price' = price + OB_SPREAD
                   /\ cash' = cash
                   /\ action' = "ENTRY"
                   /\ entry_balance' = cash
                   /\ swap_accrued' = 0
              ELSE IF position = 1 /\ today_signal = <<0>>
              THEN /\ position' = 0
                   /\ cash' = cash + profit
                   /\ buy_price' = 0
                   /\ action' = "EXIT"
                   /\ UNCHANGED histVars
              ELSE IF position = 1 /\ today_signal = <<1>>
              THEN /\ cash' = cash + daily_swap
                   /\ action' = "HOLD"
                   /\ swap_accrued' = swap_accrued + daily_swap
                   /\ UNCHANGED <<position, buy_price, entry_balance>>
              ELSE /\ action' = "WAIT"
                   /\ UNCHANGED <<cash, position, buy_price, histVars>>
           /\ equity_curve' =
                 Append(equity_curve,
                        IF position' = 1
                        THEN cash' + Jpy(price - buy_price', LOT_SIZE)
                        ELSE cash')

-----------------------------------------------------------------------------
(* Filter and strategy comparisons: run_backtest of trend_filter_test and  *)
(* of active_strategy_test.  Each run walks one data set with one filter   *)
(* (or one entry/exit pair); `script` names the run, and `closes` holds    *)
(* the data set: its ^TNX column and its JPY=X column.                     *)

MaxFilterBars   == 23        \* the comparison data sets have this many rows

TF_SPREAD        == 4        \* trend_filter_test.SPREAD = 0.004 yen
TF_SWAP_PER_DAY  == 100      \* trend_filter_test.SWAP_PER_DAY
TF_LOT_RATIO_PCT == 2        \* trend_filter_test.LOT_RATIO = 0.02
AS_SPREAD        == 4        \* active_strategy_test.SPREAD = 0.004 yen
AS_SWAP_PER_DAY  == 100      \* active_strategy_test.SWAP_PER_DAY
AS_LOT_RATIO_PCT == 2        \* active_strategy_test.LOT_RATIO = 0.02

\* ^TNX columns (yield * 10): rising every day, falling every day, alternating,
\* and rising until two rows before the end and falling after
TnxColumns ==
    { [k \in 1..MaxFilterBars |-> 40 + k],
      [k \in 1..MaxFilterBars |-> 100 - k],
      [k \in 1..MaxFilterBars |-> 40 + (k % 2)],
      [k \in 1..MaxFilterBars |-> IF k <= MaxFilterBars - 2 THEN 40 + k
                                  ELSE 40 + 2 * (MaxFilterBars - 2) - k] }

\* JPY=X columns: flat, and alternating between 100.000 and 100.500
JpyColumns ==
    { [k \in 1..MaxFilterBars |-> 100000],
      [k \in 1..MaxFilterBars |-> IF k % 2 = 0 THEN 100500 ELSE 100000] }

DataSets == { [tnx |-> t, jpy |-> j] : t \in TnxColumns, j \in JpyColumns }

\* data['^TNX'].rolling(window=n).sum() at row i (0-based), for i >= n - 1
RollSum(data, i, n) == SumSeq(SubSeq(data.tnx, i - n + 2, i + 1))

\* data['DailySignal'].iloc[i] of trend_filter_test (lines 113-115): the shifted
\* sign of the TNX change, <<>> for the NaN of the first row
DailySignal(data, i) ==
    IF i = 0 THEN <<>>
    ELSE IF i = 1 THEN <<0>>
    ELSE IF data.tnx[i] > data.tnx[i - 1] THEN <<1>> ELSE <<0>>

\* trend_filter_test.calculate_lot
tf_calculate_lot(balance) == Max2(RoundLot(balance, TF_LOT_RATIO_PCT), 10000)

filter_none(data, i) == TRUE

\* filter_ma20 without its guard: MA20 exists from row 19 on and compares False
\* while it is NaN
filter_ma20_unguarded(data, i) ==
    IF i < 19 THEN FALSE
    ELSE 20 * data.tnx[i + 1] > RollSum(data, i, 20)

\* trend_filter_test.filter_ma20: TNX > MA20
filter_ma20(data, i) ==
    IF i < 20 THEN FALSE
    ELSE 20 * data.tnx[i + 1] > RollSum(data, i, 20)

\* trend_filter_test.filter_cross: MA5 > MA20
filter_cross(data, i) ==
    IF i < 20 THEN FALSE
    ELSE 4 * RollSum(data, i, 5) > RollSum(data, i, 20)

\* trend_filter_test.filter_ma20_slope: MA20 above the MA20 of the row before
filter_ma20_slope(data, i) ==
    IF i < 21 THEN FALSE
    ELSE RollSum(data, i, 20) > RollSum(data, i - 1, 20)

TrendFilterRuns == {"trend_filter_test.filter_none", "trend_filter_test.filter_ma20",
                    "trend_filter_test.filter_cross", "trend_filter_test.filter_ma20_slope"}

\* filter_func(data, i) of the run
filter_func(run, data, i) ==
    CASE run = "trend_filter_test.filter_none" -> filter_none(data, i)
      [] run = "trend_filter_test.filter_ma20" -> filter_ma20(data, i)
      [] run = "trend_filter_test.filter_cross" -> filter_cross(data, i)
      [] run = "trend_filter_test.filter_ma20_slope" -> filter_ma20_slope(data, i)

\* One iteration of the loop of trend_filter_test.run_backtest (lines 31-62).
\* trades is the record of the counters trades and wins.
TrendFilterBar ==
    /\ script \in TrendFilterRuns
    /\ steps < MaxFilterBars
    /\ steps' = steps + 1
    /\ UNCHANGED <<script, liveVars, procs, closes>>
    /\ LET price        == closes.jpy[steps + 1]
           daily_signal == DailySignal(closes, steps)
           trend_ok     == filter_func(script, closes, steps)
           profit       == Jpy(price - buy_price, current_lot)
           daily_swap   == Yen(TF_SWAP_PER_DAY * (current_lot \div 10000))
       IN  /\ bar' = [price |-> price, daily_signal |-> daily_signal, trend_ok |-> trend_ok]
           /\ IF position = 0 /\ daily_signal = <<1>> /\ trend_ok
              THEN /\ position' = 1
                   /\ current_lot' = tf_calculate_lot(cash)
                   /\ buy_price' = price + TF_SPREAD
                   /\ action' = "ENTRY"
                   /\ entry_balance' = cash
                   /\ swap_accrued' = 0
                   /\ UNCHANGED <<cash, trades>>
              ELSE IF position = 1 /\ daily_signal = <<0>>
              THEN /\ position' = 0
                   /\ cash' = cash + profit
                   /\ trades' = [trades |-> trades.trades + 1,
                                 wins |-> trades.wins + (IF profit > 0 THEN 1 ELSE 0)]
                   /\ current_lot' = 0
                   /\ buy_price' = 0
                   /\ action' = "EXIT"
                   /\ UNCHANGED histVars
              ELSE IF position = 1
              THEN /\ cash' = cash + daily_swap
                   /\ action' = "HOLD"
                   /\ swap_accrued' = swap_accrued + daily_swap
                   /\ UNCHANGED <<position, current_lot, buy_price, trades, entry_balance>>
              ELSE /\ action' = "WAIT"
                   /\ UNCHANGED <<cash, position, current_lot, buy_price, trades, histVars>>
           /\ equity_curve' =
                 Append(equity_curve,
                        IF position' = 1
                        THEN cash' + Jpy(price - buy_price', current_lot')
                        ELSE cash')

\* active_strategy_test: data['DailyUp'].iloc[i], TNX_change > 0 (False on the
\* NaN of row 0), and d['TNX_change'].iloc[i] < 0
DailyUp(data, i) == i >= 1 /\ data.tnx[i + 1] > data.tnx[i]
TnxDown(data, i) == i >= 1 /\ data.tnx[i + 1] < data.tnx[i]

\* active_strategy_test.calculate_lot
as_calculate_lot(balance) == Max2(RoundLot(balance, AS_LOT_RATIO_PCT), 10000)

\* The entry and exit functions of active_strategy_test.main (lines 118-168)
\* An exit rule that reads the TNX close of the following row
daily_exit_peek(d, i) ==
    IF i < 1 \/ i + 2 > Len(d.tnx) THEN FALSE ELSE ~(d.tnx[i + 2] > d.tnx[i + 1])
daily_entry(d, i) == IF i < 1 THEN FALSE ELSE DailyUp(d, i)
daily_exit(d, i) == IF i < 1 THEN FALSE ELSE ~DailyUp(d, i)
ma5_entry(d, i) ==
    IF i < 5 THEN FALSE ELSE DailyUp(d, i) /\ 5 * d.tnx[i + 1] > RollSum(d, i, 5)
ma5_exit(d, i) == IF i < 5 THEN FALSE ELSE ~DailyUp(d, i)
mom3_entry(d, i) == IF i < 3 THEN FALSE ELSE DailyUp(d, i) /\ DailyUp(d, i - 1)
mom3_exit(d, i) == IF i < 1 THEN FALSE ELSE TnxDown(d, i)
cross510_entry(d, i) ==
    IF i < 10 THEN FALSE ELSE 2 * RollSum(d, i, 5) > RollSum(d, i, 10) /\ DailyUp(d, i)
cross510_exit(d, i) ==
    IF i < 10 THEN FALSE ELSE 2 * RollSum(d, i, 5) < RollSum(d, i, 10)
trend10_entry(d, i) ==
    IF i < 10 THEN FALSE ELSE DailyUp(d, i) /\ 10 * d.tnx[i + 1] > RollSum(d, i, 10)
trend10_exit(d, i) == IF i < 1 THEN FALSE ELSE ~DailyUp(d, i)
ma20_entry(d, i) ==
    IF i < 20 THEN FALSE ELSE DailyUp(d, i) /\ 20 * d.tnx[i + 1] > RollSum(d, i, 20)
ma20_exit(d, i) == IF i < 1 THEN FALSE ELSE ~DailyUp(d, i)

ActiveStrategyRuns == {"active_strategy_test.daily", "active_strategy_test.ma5",
                       "active_strategy_test.mom3", "active_strategy_test.cross510",
                       "active_strategy_test.trend10", "active_strategy_test.ma20"}

\* entry_func(data, i) and exit_func(data, i) of the run
entry_func(run, d, i) ==
    CASE run = "active_strategy_test.daily" -> daily_entry(d, i)
      [] run = "active_strategy_test.ma5" -> ma5_entry(d, i)
      [] run = "active_strategy_test.mom3" -> mom3_entry(d, i)
      [] run = "active_strategy_test.cross510" -> cross510_entry(d, i)
      [] run = "active_strategy_test.trend10" -> trend10_entry(d, i)
      [] run = "active_strategy_test.ma20" -> ma20_entry(d, i)
exit_func(run, d, i) ==
    CASE run = "active_strategy_test.daily" -> daily_exit(d, i)
      [] run = "active_strategy_test.ma5" -> ma5_exit(d, i)
      [] run = "active_strategy_test.mom3" -> mom3_exit(d, i)
      [] run = "active_strategy_test.cross510" -> cross510_exit(d, i)
      [] run = "active_strategy_test.trend10" -> trend10_exit(d, i)
      [] run = "active_strategy_test.ma20" -> ma20_exit(d, i)

\* The loop variables of active_strategy_test.run_backtest before the first bar
\* (lines 25-31)
ActiveStrategyStart ==
    [cash |-> Yen(INITIAL_CAPITAL), position |-> 0, current_lot |-> 0,
     buy_price |-> 0, trades |-> [trades |-> 0, wins |-> 0],
     entry_balance |-> 0, swap_accrued |-> 0, action |-> "NONE", bar |-> <<>>,
     equity |-> <<>>]

\* One iteration of the loop of active_strategy_test.run_backtest (lines 33-67):
\* the loop variables and the equity sample that row i of the data set d leaves
\* when the loop variables before it are s
ActiveStrategyStep(run, d, i, s) ==
    LET price       == d.jpy[i + 1]
        can_entry   == entry_func(run, d, i)
        should_exit == exit_func(run, d, i)
        profit      == Jpy(price - s.buy_price, s.current_lot)
        daily_swap  == Yen(AS_SWAP_PER_DAY * (s.current_lot \div 10000))
        b           == [price |-> price, can_entry |-> can_entry,
                        should_exit |-> should_exit]
        n == IF s.position = 0 /\ can_entry
             THEN [s EXCEPT !.position = 1,
                            !.current_lot = as_calculate_lot(s.cash),
                            !.buy_price = price + AS_SPREAD,
                            !.action = "ENTRY",
                            !.entry_balance = s.cash,
                            !.swap_accrued = 0]
             ELSE IF s.position = 1 /\ should_exit
             THEN [s EXCEPT !.position = 0,
                            !.cash = s.cash + profit,
                            !.trades = [trades |-> s.trades.trades + 1,
                                        wins |-> s.trades.wins
                                                 + (IF profit > 0 THEN 1 ELSE 0)],
                            !.current_lot = 0,
                            !.buy_price = 0,
                            !.action = "EXIT"]
             ELSE IF s.position = 1
             THEN [s EXCEPT !.cash = s.cash + daily_swap,
                            !.action = "HOLD",
                            !.swap_accrued = s.swap_accrued + daily_swap]
             ELSE [s EXCEPT !.action = "WAIT"]
    IN  [n EXCEPT !.bar = b,
                  !.equity = IF n.position = 1
                             THEN <<n.cash + Jpy(price - n.buy_price, n.current_lot)>>
                             ELSE <<n.cash>>]

\* The loop of active_strategy_test.run_backtest taking its next row
ActiveStrategyBar ==
    /\ script \in ActiveStrategyRuns
    /\ steps < MaxFilterBars
    /\ steps' = steps + 1
    /\ UNCHANGED <<script, liveVars, procs, closes>>
    /\ LET n == ActiveStrategyStep(script, closes, steps,
                    [cash |-> cash, position |-> position,
                     current_lot |-> current_lot, buy_price |-> buy_price,
                     trades |-> trades, entry_balance |-> entry_balance,
                     swap_accrued |-> swap_accrued, action |-> action,
                     bar |-> bar, equity |-> <<>>])
       IN  /\ cash' = n.cash
           /\ position' = n.position
           /\ current_lot' = n.current_lot
           /\ buy_price' = n.buy_price
           /\ trades' = n.trades
           /\ entry_balance' = n.entry_balance
           /\ swap_accrued' = n.swap_accrued
           /\ action' = n.action
           /\ bar' = n.bar
           /\ equity_curve' = Append(equity_curve, n.equity[1])

-----------------------------------------------------------------------------
(* Session backtests: run_backtest of scalp_backtest, daytrade_optimize,   *)
(* leverage_test and total_optimize                                        *)

MaxSessionBars  == 8         \* the session data sets have this many bars

TRADE_START_UTC == 1
TRADE_END_UTC   == 9
UNITS           == 20000     \* scalp_backtest: fixed size
SB_TAKE_PROFIT  == 150       \* scalp_backtest.TAKE_PROFIT = 0.15 yen
SB_STOP_LOSS    == 100       \* scalp_backtest.STOP_LOSS = 0.10 yen
SB_SPREAD       == 4         \* scalp_backtest.SPREAD = 0.004 yen
DO_LOT_RATIO_PCT == 2        \* daytrade_optimize.LOT_RATIO = 0.02
DO_SPREAD       == 4         \* daytrade_optimize.SPREAD
LT_TAKE_PROFIT  == 150       \* leverage_test.TAKE_PROFIT
LT_STOP_LOSS    == 100       \* leverage_test.STOP_LOSS
LT_SPREAD       == 4         \* leverage_test.SPREAD
TO_SPREAD       == 4         \* total_optimize.SPREAD
Lookback        == 5         \* get_trend(df, i, lookback=5)

\* The grid points the parametrised runs are modelled at
do_take_profit  == 150       \* daytrade_optimize: take_profits has 0.15
do_stop_loss    == 100       \* daytrade_optimize: stop_losses has 0.10
lt_lot_ratio    == 5         \* leverage_test: lot_ratios has 0.05
to_take_profit  == 150       \* total_optimize: take_profits has 0.15
to_stop_loss    == 100       \* total_optimize: stop_losses has 0.10
to_lot_ratio    == 5         \* total_optimize: lot_ratios has 0.05

\* UTC hours of the bars of the data set: before the session, inside it, and the
\* closing hour (TRADE_START_UTC <= 9 <= TRADE_END_UTC and 9 >= TRADE_END_UTC)
SessionHours == {0, 5, 9}

\* get_trend(df, idx, lookback) of scalp_backtest and daytrade_optimize; w holds
\* the closes up to and including row idx (the last lookback + 1 of them)
sb_get_trend(w, idx) ==
    IF idx < Lookback THEN 0
    ELSE IF w[Len(w)] > w[Len(w) - Lookback] + 20 THEN 1
    ELSE IF w[Len(w)] < w[Len(w) - Lookback] - 20 THEN 0 - 1
    ELSE 0

\* get_trend(df, idx, lookback) of leverage_test and total_optimize
lt_get_trend(w, idx) ==
    IF idx < Lookback THEN 0
    ELSE IF w[Len(w)] > w[Len(w) - Lookback] + 20 THEN 1
    ELSE 0

\* The exit branch of scalp_backtest.run_backtest (lines 89-133)
ScalpExit(pnl, hour_utc) ==
    IF pnl >= SB_TAKE_PROFIT THEN "TP"
    ELSE IF pnl <= 0 - SB_STOP_LOSS THEN "SL"
    ELSE IF hour_utc >= TRADE_END_UTC THEN "FORCED"
    ELSE "None"

\* One iteration of the loop of scalp_backtest.run_backtest (lines 68-133)
ScalpBar(price, hour_utc) ==
    /\ script = "scalp_backtest"
    /\ steps < MaxSessionBars
    /\ steps' = steps + 1
    /\ UNCHANGED <<script, liveVars, procs, equity_curve, current_lot, histVars>>
    /\ bar' = [price |-> price, hour_utc |-> hour_utc]
    /\ closes' = LastN(Append(closes, price), Lookback + 1)
    /\ LET is_trading_hour == TRADE_START_UTC <= hour_utc /\ hour_utc <= TRADE_END_UTC
           pnl == price - buy_price
       IN  IF position = 0
           THEN IF is_trading_hour /\ sb_get_trend(closes', steps) = 1
                THEN /\ position' = 1
                     /\ buy_price' = price + SB_SPREAD
                     /\ action' = "ENTRY"
                     /\ UNCHANGED <<cash, trades>>
                ELSE /\ action' = "WAIT"
                     /\ UNCHANGED <<cash, position, buy_price, trades>>
           ELSE IF ScalpExit(pnl, hour_utc) # "None"
                THEN /\ trades' = Append(trades,
                                    [entry_price |-> buy_price, exit_price |-> price,
                                     pnl_yen |-> pnl, pnl_jpy |-> Jpy(pnl, UNITS),
                                     result |-> ScalpExit(pnl, hour_utc),
                                     exit_hour |-> hour_utc])
                     /\ cash' = cash + Jpy(pnl, UNITS)
                     /\ position' = 0
                     /\ action' = ScalpExit(pnl, hour_utc)
                     /\ UNCHANGED buy_price
                ELSE /\ action' = "HOLD"
                     /\ UNCHANGED <<cash, position, buy_price, trades>>

\* daytrade_optimize.calculate_lot
do_calculate_lot(balance) == Max2(RoundLot(balance, DO_LOT_RATIO_PCT), 10000)

\* The exit branch of daytrade_optimize.run_backtest (lines 83-99)
DaytradeOptimizeExit(pnl, hour_utc, take_profit, stop_loss) ==
    IF pnl >= take_profit THEN "TP"
    ELSE IF pnl <= 0 - stop_loss THEN "SL"
    ELSE IF hour_utc >= TRADE_END_UTC THEN "FORCED"
    ELSE "None"

\* The units an entry of daytrade_optimize.run_backtest takes (line 75, compound=True)
DaytradeOptimizeEntryUnits(c) == do_calculate_lot(c)

\* One iteration of the loop of daytrade_optimize.run_backtest (lines 65-101)
DaytradeOptimizeBar(price, hour_utc) ==
    /\ script = "daytrade_optimize"
    /\ steps < MaxSessionBars
    /\ steps' = steps + 1
    /\ UNCHANGED <<script, liveVars, procs, swap_accrued>>
    /\ bar' = [price |-> price, hour_utc |-> hour_utc]
    /\ closes' = LastN(Append(closes, price), Lookback + 1)
    /\ LET is_trading_hour == TRADE_START_UTC <= hour_utc /\ hour_utc <= TRADE_END_UTC
           pnl     == price - buy_price
           pnl_jpy == Jpy(pnl, current_lot)
           result  == DaytradeOptimizeExit(pnl, hour_utc, do_take_profit, do_stop_loss)
       IN  /\ IF position = 0
              THEN IF is_trading_hour /\ sb_get_trend(closes', steps) = 1
                   THEN /\ position' = 1
                        /\ current_lot' = DaytradeOptimizeEntryUnits(cash)
                        /\ buy_price' = price + DO_SPREAD
                        /\ action' = "ENTRY"
                        /\ entry_balance' = cash
                        /\ UNCHANGED <<cash, trades>>
                   ELSE /\ action' = "WAIT"
                        /\ UNCHANGED <<cash, position, current_lot, buy_price, trades,
                                       entry_balance>>
              ELSE IF result # "None"
                   THEN /\ cash' = cash + pnl_jpy
                        /\ trades' = Append(trades, [result |-> result, pnl |-> pnl_jpy])
                        /\ position' = 0
                        /\ action' = result
                        /\ UNCHANGED <<current_lot, buy_price, entry_balance>>
                   ELSE /\ action' = "HOLD"
                        /\ UNCHANGED <<cash, position, current_lot, buy_price, trades,
                                       entry_balance>>
           /\ equity_curve' = Append(equity_curve, cash')

\* A minimum-balance test that lets every balance through
MinimumBalanceOk_any(balance) == TRUE

\* The minimum-balance test of an entry in leverage_test.run_backtest (line 57) and
\* in total_optimize.run_backtest (line 57): cash > 100000
MinimumBalanceOk(balance) == balance > Yen(100000)

\* calculate_lot inside leverage_test.run_backtest
lt_calculate_lot(balance, lot_ratio) == Max2(RoundLot(balance, lot_ratio), 10000)

\* The exit branch of leverage_test.run_backtest (lines 68-79)
LeverageTestExit(pnl, hour_utc) ==
    IF pnl >= LT_TAKE_PROFIT THEN "TP"
    ELSE IF pnl <= 0 - LT_STOP_LOSS THEN "SL"
    ELSE IF hour_utc >= TRADE_END_UTC THEN "FORCED"
    ELSE "None"

\* One iteration of the loop of leverage_test.run_backtest (lines 51-81)
LeverageTestBar(price, hour_utc) ==
    /\ script = "leverage_test"
    /\ steps < MaxSessionBars
    /\ steps' = steps + 1
    /\ UNCHANGED <<script, liveVars, procs, swap_accrued>>
    /\ bar' = [price |-> price, hour_utc |-> hour_utc]
    /\ closes' = LastN(Append(closes, price), Lookback + 1)
    /\ LET is_trading_hour == TRADE_START_UTC <= hour_utc /\ hour_utc <= TRADE_END_UTC
           pnl     == price - buy_price
           pnl_jpy == Jpy(pnl, current_lot)
           result  == LeverageTestExit(pnl, hour_utc)
       IN  /\ IF position = 0
              THEN IF is_trading_hour /\ MinimumBalanceOk(cash)
                      /\ lt_get_trend(closes', steps) = 1
                   THEN /\ position' = 1
                        /\ current_lot' = lt_calculate_lot(cash, lt_lot_ratio)
                        /\ buy_price' = price + LT_SPREAD
                        /\ action' = "ENTRY"
                        /\ entry_balance' = cash
                        /\ UNCHANGED <<cash, trades>>
                   ELSE /\ action' = "WAIT"
                        /\ UNCHANGED <<cash, position, current_lot, buy_price, trades,
                                       entry_balance>>
              ELSE IF result # "None"
                   THEN /\ cash' = cash + pnl_jpy
                        /\ trades' = Append(trades, [result |-> result, pnl |-> pnl_jpy,
                                                     units |-> current_lot])
                        /\ position' = 0
                        /\ action' = result
                        /\ UNCHANGED <<current_lot, buy_price, entry_balance>>
                   ELSE /\ action' = "HOLD"
                        /\ UNCHANGED <<cash, position, current_lot, buy_price, trades,
                                       entry_balance>>
           /\ equity_curve' = Append(equity_curve, Max2(0, cash'))

\* calculate_lot inside total_optimize.run_backtest
to_calculate_lot(balance, lot_ratio) == Max2(RoundLot(balance, lot_ratio), 10000)

\* The exit branch of total_optimize.run_backtest (lines 68-82); the script keeps
\* no reason, only the counters the branch updates
TotalOptimizeExit(pnl, hour_utc, take_profit, stop_loss) ==
    IF pnl >= take_profit THEN "TP"
    ELSE IF pnl <= 0 - stop_loss THEN "SL"
    ELSE IF hour_utc >= TRADE_END_UTC THEN "FORCED"
    ELSE "None"

\* One iteration of the loop of total_optimize.run_backtest (lines 48-87).  Here
\* trades is the record of the counters trades, wins, min_cash and max_cash.
TotalOptimizeBar(price, hour_utc) ==
    /\ script = "total_optimize"
    /\ steps < MaxSessionBars
    /\ cash >= Yen(50000)
    /\ steps' = steps + 1
    /\ UNCHANGED <<script, liveVars, procs, swap_accrued, equity_curve>>
    /\ bar' = [price |-> price, hour_utc |-> hour_utc]
    /\ closes' = LastN(Append(closes, price), Lookback + 1)
    /\ LET is_trading_hour == TRADE_START_UTC <= hour_utc /\ hour_utc <= TRADE_END_UTC
           pnl     == price - buy_price
           pnl_jpy == Jpy(pnl, current_lot)
           result  == TotalOptimizeExit(pnl, hour_utc, to_take_profit, to_stop_loss)
           won     == result = "TP" \/ (result = "FORCED" /\ pnl_jpy > 0)
       IN  /\ IF position = 0
              THEN IF is_trading_hour /\ MinimumBalanceOk(cash)
                      /\ lt_get_trend(closes', steps) = 1
                   THEN /\ position' = 1
                        /\ current_lot' = to_calculate_lot(cash, to_lot_ratio)
                        /\ buy_price' = price + TO_SPREAD
                        /\ action' = "ENTRY"
                        /\ entry_balance' = cash
                        /\ UNCHANGED cash
                   ELSE /\ action' = "WAIT"
                        /\ UNCHANGED <<cash, position, current_lot, buy_price, entry_balance>>
              ELSE IF result # "None"
                   THEN /\ cash' = cash + pnl_jpy
                        /\ position' = 0
                        /\ action' = result
                        /\ UNCHANGED <<current_lot, buy_price, entry_balance>>
                   ELSE /\ action' = "HOLD"
                        /\ UNCHANGED <<cash, position, current_lot, buy_price, entry_balance>>
           /\ trades' = [trades  |-> trades.trades
                                      + (IF position = 1 /\ result # "None" THEN 1 ELSE 0),
                         wins    |-> trades.wins
                                      + (IF position = 1 /\ result # "None" /\ won
                                         THEN 1 ELSE 0),
                         min_cash |-> Min2(trades.min_cash, cash'),
                         max_cash |-> Max2(trades.max_cash, cash')]

-----------------------------------------------------------------------------
(* Overlapping live invocations.  Nothing in the runners serialises two    *)
(* invocations: each statement runs on its own connection and only the     *)
(* statements between one engine.connect() and its commit() form one       *)
(* transaction.  An invocation is therefore split at those points: what it *)
(* reads first, the later read of the open position (swing), the write     *)
(* transaction, and the equity sample (swing).                             *)

Procs == {1, 2}

\* wall-clock instants of the overlapping invocations (market open)
OverlapTimes == { [weekday |-> 2, hour |-> 10], [weekday |-> 2, hour |-> 18] }

Idle == [pc |-> "idle", runner |-> "none", t |-> [weekday |-> 2, hour |-> 10],
         current_balance |-> 0, pos |-> <<>>, feed |-> <<>>]

\* check_and_execute up to the market fetch (lines 184-214): get_config is read here
OSwingStart(p, t, feed) ==
    /\ script = "swing"
    /\ procs[p].pc = "idle"
    /\ steps < MaxInvocations
    /\ steps' = steps + 1
    /\ now' = t
    /\ UNCHANGED <<script, market, action, swingTables, dayTables, btVars, histVars>>
    /\ IF ~is_market_open(t) \/ get_config(sim_config) = <<>> \/ get_market_data(feed) = <<>>
       THEN UNCHANGED procs
       ELSE procs' = [procs EXCEPT ![p] =
                        [pc |-> "read_position", runner |-> "check_and_execute", t |-> t,
                         current_balance |-> get_config(sim_config)[1].current_balance,
                         pos |-> <<>>, feed |-> <<feed>>]]

\* check_and_execute line 223: get_current_position
OSwingReadPosition(p) ==
    /\ procs[p].pc = "read_position"
    /\ procs' = [procs EXCEPT ![p].pc = "write",
                              ![p].pos = get_current_position(sim_positions)]
    /\ UNCHANGED <<script, steps, now, market, action, swingTables, dayTables, btVars,
                   histVars>>

\* check_and_execute lines 225-363: the decision and its one write transaction
OSwingWrite(p) ==
    /\ procs[p].pc = "write"
    /\ procs[p].runner = "check_and_execute"
    /\ LET w == SwingWrite(sim_positions, sim_trade_history, sim_config,
                           procs[p].current_balance, procs[p].pos,
                           get_market_data(procs[p].feed[1])[1])
       IN  /\ sim_positions' = w.positions
           /\ sim_trade_history' = w.history
           /\ sim_config' = w.config
           /\ action' = w.action
    /\ procs' = [procs EXCEPT ![p].pc = "log"]
    /\ UNCHANGED <<script, steps, now, market, sim_equity_log, dayTables, btVars, histVars>>

\* check_and_execute lines 365-391: the equity sample
OSwingLog(p) ==
    /\ procs[p].pc = "log"
    /\ sim_equity_log' = Append(sim_equity_log,
                            SwingEquitySample(sim_config, sim_positions,
                                              procs[p].current_balance))
    /\ procs' = [procs EXCEPT ![p] = Idle]
    /\ UNCHANGED <<script, steps, now, market, action, sim_config, sim_positions,
                   sim_trade_history, dayTables, btVars, histVars>>

\* main.check_daytrade up to the price fetch (lines 455-502): the configuration
\* and the open position are read on one connection
ODaytradeStart(p, t, feed) ==
    /\ script = "daytrade"
    /\ procs[p].pc = "idle"
    /\ steps < MaxInvocations
    /\ steps' = steps + 1
    /\ now' = t
    /\ UNCHANGED <<script, market, action, swingTables, dayTables, btVars, histVars>>
    /\ IF ~is_market_open(t) \/ sim_daytrade_config = <<>> \/ feed.daily_len = 0
       THEN UNCHANGED procs
       ELSE procs' = [procs EXCEPT ![p] =
                        [pc |-> "write", runner |-> "check_daytrade", t |-> t,
                         current_balance |-> sim_daytrade_config[1].current_balance,
                         pos |-> get_current_position(sim_daytrade_positions),
                         feed |-> <<feed>>]]

\* main.check_daytrade lines 507-612: the decision and its one write transaction
ODaytradeWrite(p) ==
    /\ procs[p].pc = "write"
    /\ procs[p].runner = "check_daytrade"
    /\ LET w == DaytradeWrite(sim_daytrade_positions, sim_daytrade_history,
                              sim_daytrade_config, procs[p].current_balance,
                              procs[p].pos, procs[p].feed[1].close, procs[p].feed[1],
                              procs[p].t)
       IN  /\ sim_daytrade_positions' = w.positions
           /\ sim_daytrade_history' = w.history
           /\ sim_daytrade_config' = w.config
           /\ action' = w.action
    /\ procs' = [procs EXCEPT ![p] = Idle]
    /\ UNCHANGED <<script, steps, now, market, swingTables, btVars, histVars>>

\* main_daytrade.check_and_execute up to the market fetch (lines 114-139)
OMdStart(p, t, feed) ==
    /\ script = "daytrade"
    /\ procs[p].pc = "idle"
    /\ steps < MaxInvocations
    /\ steps' = steps + 1
    /\ now' = t
    /\ UNCHANGED <<script, market, action, swingTables, dayTables, btVars, histVars>>
    /\ IF get_trend(feed) = <<>>
       THEN UNCHANGED procs
       ELSE procs' = [procs EXCEPT ![p] =
                        [pc |-> "write", runner |-> "md_check_and_execute", t |-> t,
                         current_balance |->
                             IF sim_daytrade_config = <<>> THEN Yen(INITIAL_CAPITAL)
                             ELSE sim_daytrade_config[1].current_balance,
                         pos |-> get_current_position(sim_daytrade_positions),
                         feed |-> <<feed>>]]

\* main_daytrade.check_and_execute lines 145-246: the decision and its writes
OMdWrite(p) ==
    /\ procs[p].pc = "write"
    /\ procs[p].runner = "md_check_and_execute"
    /\ LET w == MdWrite(sim_daytrade_positions, sim_daytrade_history,
                        sim_daytrade_config, procs[p].current_balance,
                        procs[p].pos, get_trend(procs[p].feed[1])[1], procs[p].t)
       IN  /\ sim_daytrade_positions' = w.positions
           /\ sim_daytrade_history' = w.history
           /\ sim_daytrade_config' = w.config
           /\ action' = w.action
    /\ procs' = [procs EXCEPT ![p] = Idle]
    /\ UNCHANGED <<script, steps, now, market, swingTables, btVars, histVars>>

\* A statement of the write transaction of check_and_execute raises: the
\* connection is closed without commit, nothing of the transaction is kept, and
\* the exception ends the invocation
OSwingWriteFails(p) ==
    /\ procs[p].pc = "write"
    /\ procs[p].runner = "check_and_execute"
    /\ action' = "WRITE_FAILED"
    /\ procs' = [procs EXCEPT ![p] = Idle]
    /\ UNCHANGED <<script, steps, now, market, swingTables, dayTables, btVars, histVars>>

\* The INSERT INTO sim_equity_log of check_and_execute raises (lines 365-391):
\* the write transaction before it is already committed
OSwingLogFails(p) ==
    /\ procs[p].pc = "log"
    /\ action' = "WRITE_FAILED"
    /\ procs' = [procs EXCEPT ![p] = Idle]
    /\ UNCHANGED <<script, steps, now, market, swingTables, dayTables, btVars, histVars>>

\* A statement of the write transaction of a day-trade runner raises
ODaytradeWriteFails(p) ==
    /\ procs[p].pc = "write"
    /\ procs[p].runner \in {"check_daytrade", "md_check_and_execute"}
    /\ action' = "WRITE_FAILED"
    /\ procs' = [procs EXCEPT ![p] = Idle]
    /\ UNCHANGED <<script, steps, now, market, swingTables, dayTables, btVars, histVars>>

-----------------------------------------------------------------------------
(* Specification *)

ConfigRows == { <<>>, << [initial_capital |-> Yen(INITIAL_CAPITAL),
                         current_balance |-> Yen(INITIAL_CAPITAL)] >> }

Scripts == {"sizer", "swing", "daytrade", "compound_backtest", "oanda_backtest",
            "scalp_backtest", "daytrade_optimize", "leverage_test", "total_optimize"}
           \cup TrendFilterRuns \cup ActiveStrategyRuns

\* The state every script starts from; live stores start with no position row
InitOf(scripts, processes) ==
    /\ script \in scripts
    /\ steps = 0
    /\ now = [weekday |-> 2, hour |-> 10]
    /\ market = <<>>
    /\ action = "NONE"
    /\ sim_config \in (IF script = "swing" THEN ConfigRows ELSE {<<>>})
    /\ sim_positions = <<>>
    /\ sim_trade_history = <<>>
    /\ sim_equity_log = <<>>
    /\ sim_daytrade_config \in (IF script = "daytrade" THEN ConfigRows ELSE {<<>>})
    /\ sim_daytrade_positions = <<>>
    /\ sim_daytrade_history = <<>>
    /\ cash = Yen(INITIAL_CAPITAL)
    /\ position = 0
    /\ current_lot = 0
    /\ buy_price = 0
    /\ bar = <<>>
    /\ closes \in (IF script \in TrendFilterRuns \cup ActiveStrategyRuns
                   THEN DataSets ELSE {<<>>})
    /\ trades = IF script = "total_optimize"
                THEN [trades |-> 0, wins |-> 0, min_cash |-> Yen(INITIAL_CAPITAL),
                      max_cash |-> Yen(INITIAL_CAPITAL)]
                ELSE IF script \in TrendFilterRuns \cup ActiveStrategyRuns
                THEN [trades |-> 0, wins |-> 0]
                ELSE <<>>
    /\ equity_curve = IF script \in {"daytrade_optimize", "leverage_test"}
                      THEN <<Yen(INITIAL_CAPITAL)>> ELSE <<>>
    /\ entry_balance = 0
    /\ swap_accrued = 0
    /\ procs = processes

Init == InitOf(Scripts, <<>>)

Next ==
    \/ \E b \in SizerBalances : SizeBalance(b)
    \/ \E t \in Times, feed \in Feeds : CheckAndExecute(t, feed)
    \/ \E t \in Times, feed \in DayFeeds : CheckDaytrade(t, feed)
    \/ \E t \in Times, feed \in DayFeeds : MdCheckAndExecute(t, feed)
    \/ \E tnx \in TnxCloses, price \in Prices : CompoundBar(tnx, price)
    \/ \E tnx \in TnxCloses, price \in Prices : OandaBar(tnx, price)
    \/ TrendFilterBar
    \/ ActiveStrategyBar
    \/ \E price \in Prices, hour_utc \in SessionHours : ScalpBar(price, hour_utc)
    \/ \E price \in Prices, hour_utc \in SessionHours : DaytradeOptimizeBar(price, hour_utc)
    \/ \E price \in Prices, hour_utc \in SessionHours : LeverageTestBar(price, hour_utc)
    \/ \E price \in Prices, hour_utc \in SessionHours : TotalOptimizeBar(price, hour_utc)

Spec == Init /\ [][Next]_vars

\* Two live invocations of one strategy in flight at once
InitOverlap == InitOf({"swing", "daytrade"}, [p \in Procs |-> Idle])

NextOverlap ==
    \/ \E p \in Procs, t \in OverlapTimes, feed \in Feeds : OSwingStart(p, t, feed)
    \/ \E p \in Procs : OSwingReadPosition(p)
    \/ \E p \in Procs : OSwingWrite(p)
    \/ \E p \in Procs : OSwingLog(p)
    \/ \E p \in Procs, t \in OverlapTimes, feed \in DayFeeds : ODaytradeStart(p, t, feed)
    \/ \E p \in Procs : ODaytradeWrite(p)
    \/ \E p \in Procs, t \in OverlapTimes, feed \in DayFeeds : OMdStart(p, t, feed)
    \/ \E p \in Procs : OMdWrite(p)

SpecOverlap == InitOverlap /\ [][NextOverlap]_vars

\* One live invocation at a time, any of whose write transactions may fail
InitFailure == InitOf({"swing", "daytrade"}, [p \in {1} |-> Idle])

NextFailure ==
    \/ \E t \in Times, feed \in Feeds : OSwingStart(1, t, feed)
    \/ OSwingReadPosition(1)
    \/ OSwingWrite(1)
    \/ OSwingLog(1)
    \/ \E t \in Times, feed \in DayFeeds : ODaytradeStart(1, t, feed)
    \/ ODaytradeWrite(1)
    \/ \E t \in Times, feed \in DayFeeds : OMdStart(1, t, feed)
    \/ OMdWrite(1)
    \/ OSwingWriteFails(1)
    \/ OSwingLogFails(1)
    \/ ODaytradeWriteFails(1)

SpecFailure == InitFailure /\ [][NextFailure]_vars

-----------------------------------------------------------------------------
(* A day-trade runner on an hourly schedule: the scheduler starts the      *)
(* runner at least once in every clock hour and every invocation gets its  *)
(* market data.  `script` names the runner of the schedule and `now` is    *)
(* the wall clock of the latest invocation.  The schedule goes on for      *)
(* MaxHourlyInvocations invocations and for as long as a position is open. *)

MaxHourlyInvocations == 4

\* The wall clock one hour after t
NextHour(t) ==
    IF t.hour < HoursPerDay - 1 THEN [weekday |-> t.weekday, hour |-> t.hour + 1]
    ELSE [weekday |-> (t.weekday + 1) % 7, hour |-> 0]

\* Wall clocks the schedule may start after: a Wednesday, a Friday and a
\* Saturday afternoon
StartTimes == { [weekday |-> 2, hour |-> 15], [weekday |-> 4, hour |-> 16],
                [weekday |-> 5, hour |-> 15] }

\* The feeds with which the runner gets its market data
GoodDayFeeds == [daily_len : {1}, hourly_len : {6}, up : BOOLEAN, close : Prices]

HourlyRunners == {"hourly.check_daytrade", "hourly.check_and_execute"}

\* The scheduler starts the runner again: in the next clock hour (advance) or
\* once more in the same one
HourlyInvocation(advance, feed) ==
    /\ script \in HourlyRunners
    /\ steps < MaxHourlyInvocations \/ OpenRows(sim_daytrade_positions) # {}
    /\ steps' = Min2(steps + 1, MaxHourlyInvocations)
    /\ LET t == IF advance THEN NextHour(now) ELSE now
       IN  IF script = "hourly.check_daytrade" THEN CheckDaytradeRun(t, feed)
           ELSE MdCheckAndExecuteRun(t, feed)

\* The invocation of the next clock hour
HourlyTick == \E feed \in GoodDayFeeds : HourlyInvocation(TRUE, feed)

\* A further invocation within the clock hour
HourlyRepeat == \E feed \in GoodDayFeeds : HourlyInvocation(FALSE, feed)

InitHourly ==
    /\ script \in HourlyRunners
    /\ steps = 0
    /\ now \in StartTimes
    /\ market = <<>>
    /\ action = "NONE"
    /\ sim_config = <<>>
    /\ sim_positions = <<>>
    /\ sim_trade_history = <<>>
    /\ sim_equity_log = <<>>
    /\ sim_daytrade_config \in ConfigRows
    /\ sim_daytrade_positions = <<>>
    /\ sim_daytrade_history = <<>>
    /\ cash = Yen(INITIAL_CAPITAL)
    /\ position = 0
    /\ current_lot = 0
    /\ buy_price = 0
    /\ bar = <<>>
    /\ closes = <<>>
    /\ trades = <<>>
    /\ equity_curve = <<>>
    /\ entry_balance = 0
    /\ swap_accrued = 0
    /\ procs = <<>>

NextHourly ==
    \/ HourlyTick
    \/ HourlyRepeat

\* The scheduler never stops starting the runner in the next clock hour
SpecHourly == InitHourly /\ [][NextHourly]_vars /\ WF_vars(HourlyTick)

-----------------------------------------------------------------------------
(* Properties *)

ClosedRows(tbl) == {k \in DOMAIN tbl : tbl[k].status = "CLOSED"}
SessionScripts == {"scalp_backtest", "daytrade_optimize", "leverage_test", "total_optimize"}
DayCloseActions == {"FORCE_CLOSE", "TAKE_PROFIT", "STOP_LOSS"}

\* C1. At most one position, sequentially: after any sequence of bars of a
\* backtest loop and any sequence of whole (non-overlapping) live invocations,
\* each positions table holds at most one OPEN row and the backtest position
\* flag is 0 or 1.
C1_AtMostOnePosition ==
    /\ Cardinality(OpenRows(sim_positions)) <= 1
    /\ Cardinality(OpenRows(sim_daytrade_positions)) <= 1
    /\ position \in {0, 1}

\* A second position row was opened after the first one was closed
C1_Witness ==
    /\ script = "swing"
    /\ Len(sim_positions) = 2
    /\ sim_positions[1].status = "CLOSED"
    /\ sim_positions[2].status = "OPEN"

\* C2. At most one position under overlap: with the reads and writes of two
\* live invocations interleaved, no positions table ever holds two OPEN rows.
C2_NoDoubleOpen ==
    \A tbl \in {sim_positions, sim_daytrade_positions} :
        \A j, k \in DOMAIN tbl :
            (tbl[j].status = "OPEN" /\ tbl[k].status = "OPEN") => j = k

\* C3. Closure applied exactly once under overlap: every closed position has
\* exactly one trade-history row, and the persisted swing balance is the starting
\* balance plus the realized P&L of each closed position, once.
C3_ClosureOnce ==
    /\ Len(sim_trade_history) = Cardinality(ClosedRows(sim_positions))
    /\ Len(sim_daytrade_history) = Cardinality(ClosedRows(sim_daytrade_positions))
    /\ sim_config # <<>> =>
          sim_config[1].current_balance =
              sim_config[1].initial_capital
              + SumSeq([k \in DOMAIN sim_positions |->
                          IF sim_positions[k].status = "CLOSED"
                          THEN sim_positions[k].unrealized_pnl + sim_positions[k].swap_total
                          ELSE 0])

\* C4. Conservation: a closing step of a live runner leaves the persisted balance
\* equal to the balance before it plus the net P&L written to the trade record,
\* and in the swing runner that net P&L is the recorded gross P&L plus the
\* recorded swap total.
C4_Conservation ==
    [][ /\ (script = "swing" /\ steps' = steps + 1 /\ action' = "EXIT") =>
              /\ Len(sim_trade_history') = Len(sim_trade_history) + 1
              /\ sim_config'[1].current_balance =
                    sim_config[1].current_balance + Last(sim_trade_history').net_pnl
              /\ Last(sim_trade_history').net_pnl =
                    Last(sim_trade_history').gross_pnl + Last(sim_trade_history').swap_total
        /\ (script = "daytrade" /\ steps' = steps + 1 /\ action' \in DayCloseActions
            /\ sim_daytrade_config # <<>>) =>
              /\ Len(sim_daytrade_history') = Len(sim_daytrade_history) + 1
              /\ sim_daytrade_config'[1].current_balance =
                    sim_daytrade_config[1].current_balance + Last(sim_daytrade_history').pnl
      ]_vars

\* A swing position was closed with a non-zero net P&L and a swap total
C4_Witness ==
    /\ script = "swing"
    /\ action = "EXIT"
    /\ Len(sim_trade_history) = 1
    /\ sim_trade_history[1].net_pnl # 0
    /\ sim_trade_history[1].swap_total > 0
    /\ sim_config[1].current_balance # sim_config[1].initial_capital

\* C5. Exit priority of the live day-trade runners: whenever a step evaluates an
\* open position, the forced close wins over the take-profit, which wins over
\* the stop-loss, and the action written to the history row is the one taken.
C5_ExitPriority ==
    [][ (script = "daytrade" /\ steps' = steps + 1
         /\ action' \in DayCloseActions \cup {"HOLD"}) =>
           LET p   == get_current_position(sim_daytrade_positions)[1]
               pnl == market'[1].usdjpy_price - p.entry_price
           IN  /\ now'.hour >= 18 => action' = "FORCE_CLOSE"
               /\ (now'.hour < 18 /\ pnl >= 150) => action' = "TAKE_PROFIT"
               /\ (now'.hour < 18 /\ pnl < 150 /\ pnl <= 0 - 200) => action' = "STOP_LOSS"
               /\ action' # "HOLD" => Last(sim_daytrade_history').action = action'
      ]_vars

\* The force-close hour and the take-profit condition held together and the
\* position was closed as FORCE_CLOSE
C5_Witness ==
    /\ script = "daytrade"
    /\ action = "FORCE_CLOSE"
    /\ now.hour >= 18
    /\ sim_daytrade_history # <<>>
    /\ Last(sim_daytrade_history).action = "FORCE_CLOSE"
    /\ Last(sim_daytrade_history).exit_price - Last(sim_daytrade_history).entry_price >= 150

\* C6. Exit priority of the session backtests: a position closed on a bar whose
\* hour is at or past TRADE_END_UTC, while the take-profit or the stop-loss
\* condition also holds, is recorded with reason FORCED.
C6_ForcedWins ==
    (/\ script \in SessionScripts
     /\ action \in {"TP", "SL", "FORCED"}
     /\ bar.hour_utc >= TRADE_END_UTC
     /\ \/ bar.price - buy_price >= 150
        \/ bar.price - buy_price <= 0 - 100)
    => /\ action = "FORCED"
       /\ script # "total_optimize" => Last(trades).result = "FORCED"

\* C7. Sizing bounds of main.calculate_lot: the result is 10,000 k for the k in
\* 1..10 that is the number of whole half-millions of yen in the balance, held
\* to at least 1 and at most 10; 1,000,000 gives 20,000, 1,500,000 gives 30,000
\* and 2,000,000 gives 40,000.
C7_SizingBounds ==
    (script = "sizer" /\ action = "SIZED") =>
        /\ \E k \in 1..10 :
              /\ current_lot = 10000 * k
              /\ k > 1 => cash >= Yen(k * 500000)
              /\ k < 10 => cash < Yen((k + 1) * 500000)
        /\ current_lot >= 10000
        /\ current_lot <= 100000
        /\ cash = Yen(1000000) => current_lot = 20000
        /\ cash = Yen(1500000) => current_lot = 30000
        /\ cash = Yen(2000000) => current_lot = 40000

\* A balance above five million yen was sized at the cap
C7_Witness ==
    /\ script = "sizer"
    /\ action = "SIZED"
    /\ cash > Yen(5000000)
    /\ current_lot = 100000

\* While a position is open its units are the sizing function of the balance
\* at the step that opened it, which is the balance less the swap banked since
C8_UnitsFromEntryBalance ==
    /\ (script = "compound_backtest" /\ position = 1) =>
          /\ current_lot = cb_calculate_lot(entry_balance)
          /\ cash = entry_balance + swap_accrued
    /\ (script = "daytrade_optimize" /\ position = 1) =>
          /\ current_lot = do_calculate_lot(entry_balance)
          /\ cash = entry_balance
    /\ (script = "swing" /\ OpenRows(sim_positions) # {}) =>
          /\ \A k \in OpenRows(sim_positions) :
                sim_positions[k].units = calculate_lot(entry_balance)
          /\ sim_config[1].current_balance = entry_balance
    /\ (script = "daytrade" /\ OpenRows(sim_daytrade_positions) # {}) =>
          /\ \A k \in OpenRows(sim_daytrade_positions) :
                sim_daytrade_positions[k].units = calculate_daytrade_lot(entry_balance)
          /\ sim_daytrade_config # <<>> =>
                sim_daytrade_config[1].current_balance = entry_balance

\* No step changes the units of a position row or of the open backtest position
C8_UnitsFixed ==
    /\ (position = 1 /\ position' = 1) => current_lot' = current_lot
    /\ \A k \in DOMAIN sim_positions : sim_positions'[k].units = sim_positions[k].units
    /\ \A k \in DOMAIN sim_daytrade_positions :
          sim_daytrade_positions'[k].units = sim_daytrade_positions[k].units

\* C8. Compounding at entry: while a position is open its units are the sizing
\* function of the cash balance at the step that opened it (a balance that has
\* moved with every earlier closed trade and banked swap), and the units of a
\* position never change after entry.
C8_CompoundingAtEntry == [] C8_UnitsFromEntryBalance /\ [][C8_UnitsFixed]_vars

\* A position opened after a losing trade, sized from the reduced balance
C8_Witness ==
    /\ script = "compound_backtest"
    /\ position = 1
    /\ entry_balance < Yen(INITIAL_CAPITAL)
    /\ current_lot = 10000

\* C9. Swap is never double-counted: the balance after a closure is the balance
\* at entry plus (exit price - entry fill price) * units plus the sum of the
\* swap accruals of the position, each counted once.
C9_SwapOnce ==
    [][ /\ (script = "compound_backtest" /\ position = 1 /\ position' = 0) =>
              cash' = entry_balance + Jpy(bar'.price - buy_price, current_lot)
                      + swap_accrued'
        /\ (script = "swing" /\ steps' = steps + 1 /\ action' = "EXIT") =>
              LET p == get_current_position(sim_positions)[1]
              IN  sim_config'[1].current_balance =
                      entry_balance
                      + Jpy(market'[1].usdjpy_price - (p.entry_price + SPREAD_YEN), p.units)
                      + swap_accrued'
      ]_vars

\* A swing position was closed after at least one HOLD step
C9_Witness ==
    /\ script = "swing"
    /\ action = "EXIT"
    /\ sim_trade_history # <<>>
    /\ Last(sim_trade_history).swap_total
          >= 2 * calculate_swap(Last(sim_trade_history).units, 1)
    /\ swap_accrued = Last(sim_trade_history).swap_total

DailyBacktests == {"compound_backtest", "oanda_backtest"}

\* The units the open position of a daily backtest is valued with
DailyUnits == IF script = "oanda_backtest" THEN LOT_SIZE ELSE current_lot

\* C11. Equity consistency: every equity sample of the daily backtests and of
\* the live swing runner is the balance after the step plus the unrealized P&L
\* after the step, and the unrealized part is 0 (equity = balance) whenever no
\* position is open after the step.
C11_EquityConsistency ==
    [][ /\ (script \in DailyBacktests /\ steps' = steps + 1) =>
              /\ Len(equity_curve') = Len(equity_curve) + 1
              /\ Last(equity_curve') =
                    cash' + (IF position' = 1
                             THEN Jpy(bar'.price - buy_price', DailyUnits')
                             ELSE 0)
              /\ position' = 0 => Last(equity_curve') = cash'
        /\ (script = "swing" /\ sim_equity_log' # sim_equity_log) =>
              LET s == Last(sim_equity_log')
              IN  /\ Len(sim_equity_log') = Len(sim_equity_log) + 1
                  /\ s.balance = sim_config'[1].current_balance
                  /\ s.unrealized_pnl = SumOpenUnrealized(sim_positions')
                  /\ s.equity = s.balance + s.unrealized_pnl
                  /\ OpenRows(sim_positions') = {} =>
                        (s.unrealized_pnl = 0 /\ s.equity = s.balance)
      ]_vars

\* A bar of the compounding backtest valued an open position away from its cash,
\* after swap had been banked
C11_Witness ==
    /\ script = "compound_backtest"
    /\ position = 1
    /\ action = "HOLD"
    /\ Last(equity_curve) # cash
    /\ cash > entry_balance

\* The outcomes of a live invocation that ran its decision on a market observation
LiveDecisions == {"ENTRY", "WAIT", "HOLD", "EXIT", "OUT_OF_HOURS"} \cup DayCloseActions

\* This step is an invocation of the runner that made the latest invocation, it
\* follows one that ran its decision, and it fetched the same market observation
\* (the wall clock `now` is free to differ)
RepeatedInvocation ==
    /\ script \in {"swing", "daytrade"}
    /\ steps' = steps + 1
    /\ action \in LiveDecisions
    /\ market # <<>>
    /\ market' = market

\* C12. Idempotence on no new data: when a live runner is invoked twice in
\* succession with the same unchanged market observation (price, signal and
\* trend; only the wall clock may have advanced), the second invocation appends
\* no trade-history row and does not change the balance.
C12_IdempotentOnNoNewData ==
    [][ RepeatedInvocation =>
          /\ sim_trade_history' = sim_trade_history
          /\ sim_daytrade_history' = sim_daytrade_history
          /\ sim_config' = sim_config
          /\ sim_daytrade_config' = sim_daytrade_config
      ]_vars

\* C13. No net effect without a new bar: a repeated live invocation on the same
\* market observation leaves every persisted record as the first invocation left
\* it: the position rows (swap_total, unrealized_pnl, status), the trade history,
\* the balance and the equity log (no further swap, no further equity sample).
C13_NoNetEffectWithoutNewBar ==
    [][ RepeatedInvocation => UNCHANGED <<swingTables, dayTables>> ]_vars

\* A step inserted no position row or one, closed no row or one, and not both
OneLiveTransition(tbl, tblNext) ==
    LET opened == Len(tblNext) - Len(tbl)
        closed == Cardinality(ClosedRows(tblNext)) - Cardinality(ClosedRows(tbl))
    IN  /\ opened \in {0, 1}
        /\ closed \in {0, 1}
        /\ opened + closed <= 1
        /\ opened = 1 => Last(tblNext).status = "OPEN"

\* C14. One state transition per step: one bar of a backtest or one live
\* invocation enters or exits, never both: a step that starts flat realizes
\* nothing (a position opened on a bar is not closed on it), and a step that
\* closes a position ends flat with no new position row (a position closed on a
\* bar is not re-opened on it).
C14_OneTransitionPerStep ==
    [][ /\ OneLiveTransition(sim_positions, sim_positions')
        /\ OneLiveTransition(sim_daytrade_positions, sim_daytrade_positions')
        /\ (script \in (SessionScripts \cup DailyBacktests) /\ steps' = steps + 1) =>
              /\ position = 0 => (cash' = cash /\ trades' = trades)
              /\ (position = 1 /\ position' = 1) =>
                    /\ buy_price' = buy_price
                    /\ current_lot' = current_lot
                    /\ script \in SessionScripts => cash' = cash
                    /\ script \notin {"total_optimize"} => trades' = trades
              /\ (position = 1 /\ action' \in {"EXIT", "TP", "SL", "FORCED"}) => position' = 0
              /\ action' = "ENTRY" => (position = 0 /\ position' = 1)
      ]_vars

\* A session backtest closed a position by take-profit on a bar inside trading
\* hours whose trend is up (the entry condition), and ended the bar flat
C14_Witness ==
    /\ script = "scalp_backtest"
    /\ action = "TP"
    /\ position = 0
    /\ bar.hour_utc = 5
    /\ sb_get_trend(closes, steps - 1) = 1

\* The number of earlier rows the signal or filter of a backtest run needs
MinHistory(run) ==
    CASE run \in SessionScripts -> Lookback
      [] run \in DailyBacktests -> 1
      [] run = "trend_filter_test.filter_none" -> 1
      [] run = "trend_filter_test.filter_ma20" -> 20
      [] run = "trend_filter_test.filter_cross" -> 20
      [] run = "trend_filter_test.filter_ma20_slope" -> 21
      [] run = "active_strategy_test.daily" -> 1
      [] run = "active_strategy_test.ma5" -> 5
      [] run = "active_strategy_test.mom3" -> 3
      [] run = "active_strategy_test.cross510" -> 10
      [] run = "active_strategy_test.trend10" -> 10
      [] run = "active_strategy_test.ma20" -> 20
      [] OTHER -> 0

\* C15. Insufficient history yields WAIT: a backtest bar whose index is below the
\* lookback of the run's signal or filter never opens a position, and a live
\* invocation that got fewer than 21 TNX closes (swing) or fewer than 6 hourly
\* closes (day trade) never results in an ENTRY.
C15_InsufficientHistoryWaits ==
    [][ /\ (script \notin {"swing", "daytrade", "sizer"} /\ steps' = steps + 1
            /\ (action' = "ENTRY" \/ (position = 0 /\ position' = 1))) =>
              steps >= MinHistory(script)
        /\ \A t \in Times, feed \in Feeds :
              (feed.tnx_len < 21 /\ CheckAndExecute(t, feed)) =>
                  (action' # "ENTRY" /\ sim_positions' = sim_positions)
        /\ \A t \in Times, feed \in DayFeeds :
              (feed.hourly_len < 6
               /\ (CheckDaytrade(t, feed) \/ MdCheckAndExecute(t, feed))) =>
                  (action' # "ENTRY"
                   /\ Len(sim_daytrade_positions') = Len(sim_daytrade_positions))
      ]_vars

\* The MA20 run waited on row 19, where the daily signal is up and TNX is above
\* the 20-row mean that exists from that row on
C15_Witness ==
    /\ script = "trend_filter_test.filter_ma20"
    /\ steps = 20
    /\ action = "WAIT"
    /\ position = 0
    /\ bar.daily_signal = <<1>>
    /\ 20 * closes.tnx[20] > RollSum(closes, 19, 20)

\* C16. Invalid configuration fails fast: a live invocation that finds no
\* configuration row (initial capital / current balance) changes nothing: it
\* opens no position, closes none and writes no trade, balance or equity row
\* (so it never trades on a default balance).
C16_MissingConfigRefuses ==
    [][ /\ (script = "swing" /\ steps' = steps + 1 /\ sim_config = <<>>) =>
              UNCHANGED swingTables
        /\ (script = "daytrade" /\ steps' = steps + 1 /\ sim_daytrade_config = <<>>) =>
              UNCHANGED dayTables
      ]_vars

\* C17. Market data unavailable aborts cleanly: a live invocation whose market
\* fetch fails or returns too few rows (fewer than 21 TNX closes or no USD/JPY
\* row for the swing runner, no daily row or fewer than 6 hourly rows for the
\* day-trade runners) leaves every table as it was, with or without a position
\* open: no position insert or update, no trade row, no balance update, no
\* equity sample.
C17_NoDataChangesNothing ==
    [][ /\ \A t \in Times, feed \in Feeds :
              ((feed.tnx_len < 21 \/ feed.usdjpy_len = 0) /\ CheckAndExecute(t, feed)) =>
                  UNCHANGED <<swingTables, dayTables>>
        /\ \A t \in Times, feed \in DayFeeds :
              (feed.daily_len = 0 /\ CheckDaytrade(t, feed)) =>
                  UNCHANGED <<swingTables, dayTables>>
        /\ \A t \in Times, feed \in DayFeeds :
              (feed.hourly_len < 6 /\ OpenRows(sim_daytrade_positions) = {}
               /\ CheckDaytrade(t, feed)) =>
                  UNCHANGED <<swingTables, dayTables>>
        /\ \A t \in Times, feed \in DayFeeds :
              (feed.hourly_len < 6 /\ MdCheckAndExecute(t, feed)) =>
                  UNCHANGED <<swingTables, dayTables>>
      ]_vars

\* The swing runner got no market data while a position was open
C17_Witness ==
    /\ script = "swing"
    /\ action = "NO_DATA"
    /\ market = <<>>
    /\ OpenRows(sim_positions) # {}
    /\ Len(sim_equity_log) < steps

\* C18. All-or-nothing persistence: with one invocation at a time, an invocation
\* whose write fails leaves the store as it found it, so in particular whatever
\* the swing runner has committed (a position opened, a closure with its trade
\* record and balance update) has the equity sample of its step with it: once the
\* invocation has ended there are at least as many equity samples as position
\* rows and trade records together.
C18_AllOrNothing ==
    (script = "swing" /\ procs[1].pc = "idle") =>
        Len(sim_equity_log) >= Len(sim_positions) + Len(sim_trade_history)

\* The spread constant of the backtest run
SpreadOf(run) ==
    CASE run = "compound_backtest" -> CB_SPREAD
      [] run = "oanda_backtest" -> OB_SPREAD
      [] run = "scalp_backtest" -> SB_SPREAD
      [] run = "daytrade_optimize" -> DO_SPREAD
      [] run = "leverage_test" -> LT_SPREAD
      [] run = "total_optimize" -> TO_SPREAD
      [] run \in TrendFilterRuns -> TF_SPREAD
      [] run \in ActiveStrategyRuns -> AS_SPREAD

\* The units of the open position of a backtest run
UnitsOf(run) ==
    CASE run = "scalp_backtest" -> UNITS
      [] run = "oanda_backtest" -> LOT_SIZE
      [] OTHER -> current_lot

BacktestRuns == DailyBacktests \cup SessionScripts \cup TrendFilterRuns \cup ActiveStrategyRuns

\* C19. Spread is charged exactly once per round trip: in every variant the
\* entry market price is the market price of the entry step (the stored fill
\* price less the spread where the fill includes it), and every closed trade
\* realizes (exit market price - entry market price - spread) * units as its
\* directional P&L, with nothing more taken off at exit.
C19_SpreadOnce ==
    [][ /\ (script = "swing" /\ steps' = steps + 1
            /\ Len(sim_positions') = Len(sim_positions) + 1) =>
              Last(sim_positions').entry_price = market'[1].usdjpy_price
        /\ (script = "swing" /\ steps' = steps + 1
            /\ Len(sim_trade_history') = Len(sim_trade_history) + 1) =>
              LET h == Last(sim_trade_history')
                  p == get_current_position(sim_positions)[1]
              IN  /\ h.entry_price = p.entry_price
                  /\ h.exit_price = market'[1].usdjpy_price
                  /\ h.units = p.units
                  /\ h.gross_pnl = Jpy(h.exit_price - h.entry_price - SPREAD_YEN, h.units)
                  /\ h.net_pnl = h.gross_pnl + h.swap_total
        /\ (script = "daytrade" /\ steps' = steps + 1
            /\ Len(sim_daytrade_positions') = Len(sim_daytrade_positions) + 1) =>
              Last(sim_daytrade_positions').entry_price - SPREAD_YEN = market'[1].usdjpy_price
        /\ (script = "daytrade" /\ steps' = steps + 1
            /\ Len(sim_daytrade_history') = Len(sim_daytrade_history) + 1) =>
              LET h == Last(sim_daytrade_history')
                  p == get_current_position(sim_daytrade_positions)[1]
              IN  /\ h.entry_price = p.entry_price
                  /\ h.exit_price = market'[1].usdjpy_price
                  /\ h.units = p.units
                  /\ h.pnl = Jpy(h.exit_price - (h.entry_price - SPREAD_YEN) - SPREAD_YEN,
                                 h.units)
        /\ (script \in BacktestRuns /\ steps' = steps + 1 /\ position = 0 /\ position' = 1) =>
              buy_price' - SpreadOf(script) = bar'.price
        /\ (script \in BacktestRuns /\ steps' = steps + 1 /\ position = 1 /\ position' = 0) =>
              cash' - cash = Jpy(bar'.price - (buy_price - SpreadOf(script)) - SpreadOf(script),
                                 UnitsOf(script))
      ]_vars

\* A swing trade was closed at a market price above the one it was entered at
C19_Witness ==
    /\ script = "swing"
    /\ action = "EXIT"
    /\ sim_trade_history # <<>>
    /\ Last(sim_trade_history).exit_price > Last(sim_trade_history).entry_price
    /\ Last(sim_trade_history).gross_pnl > 0

\* The backtest runs whose equity curve values the open position
MarkedToMarketRuns == DailyBacktests \cup TrendFilterRuns \cup ActiveStrategyRuns

\* C20. Entry leaves the balance unchanged: an ENTER step does not change the
\* cash balance and records no trade; the new position is worth -spread * units
\* right after entry, so the equity sample of the entry step is the balance less
\* spread * units.
C20_EntryLeavesBalance ==
    [][ /\ (script = "swing" /\ steps' = steps + 1
            /\ Len(sim_positions') = Len(sim_positions) + 1) =>
              LET row == Last(sim_positions')
              IN  /\ sim_config' = sim_config
                  /\ sim_trade_history' = sim_trade_history
                  /\ row.unrealized_pnl = 0 - Jpy(SPREAD_YEN, row.units)
                  /\ row.swap_total = 0
                  /\ Last(sim_equity_log').balance = sim_config[1].current_balance
                  /\ Last(sim_equity_log').equity =
                        sim_config[1].current_balance - Jpy(SPREAD_YEN, row.units)
        /\ (script = "daytrade" /\ steps' = steps + 1
            /\ Len(sim_daytrade_positions') = Len(sim_daytrade_positions) + 1) =>
              LET row == Last(sim_daytrade_positions')
              IN  /\ sim_daytrade_config' = sim_daytrade_config
                  /\ sim_daytrade_history' = sim_daytrade_history
                  /\ row.unrealized_pnl = 0 - Jpy(SPREAD_YEN, row.units)
        /\ (script \in BacktestRuns /\ steps' = steps + 1 /\ position = 0 /\ position' = 1) =>
              /\ cash' = cash
              /\ script \in MarkedToMarketRuns =>
                    Last(equity_curve') = cash - Jpy(SpreadOf(script), UnitsOf(script)')
      ]_vars

\* The compounding backtest entered a position after an earlier trade had moved
\* its cash, and the bar's equity is below the cash
C20_Witness ==
    /\ script = "compound_backtest"
    /\ action = "ENTRY"
    /\ cash # Yen(INITIAL_CAPITAL)
    /\ Last(equity_curve) = cash - Jpy(CB_SPREAD, current_lot)

\* The compounding backtest holds the position of the scenario after its second
\* day: entered at price 100 (fill 100.004) with 20,000 units from a cash of
\* 1,000,000, held for one bar, at price 100.5
ScenarioDay2 ==
    /\ script = "compound_backtest"
    /\ position = 1
    /\ action = "HOLD"
    /\ entry_balance = Yen(1000000)
    /\ buy_price = 100004
    /\ current_lot = 20000
    /\ swap_accrued = Yen(SWAP_PER_DAY * (20000 \div 10000))
    /\ bar.price = 100500

\* C21 as claimed.  Concrete scenario: from a cash of 1,000,000 the bars
\* (price 100, ENTER), (price 100.5, HOLD), (price 99.8, EXIT) of the compounding
\* backtest give 20,000 units filled at 100.004 with cash still 1,000,000 after
\* day 1, cash 1,000,100 after day 2, and cash 996,020 with equity equal to cash
\* after day 3.
C21_ScenarioAsClaimed ==
    [][ (script = "compound_backtest" /\ steps' = steps + 1) =>
          /\ (position = 0 /\ cash = Yen(1000000) /\ action' = "ENTRY"
              /\ bar'.price = 100000) =>
                (current_lot' = 20000 /\ buy_price' = 100004 /\ cash' = Yen(1000000))
          /\ (action = "ENTRY" /\ entry_balance = Yen(1000000) /\ buy_price = 100004
              /\ action' = "HOLD" /\ bar'.price = 100500) =>
                cash' = Yen(1000100)
          /\ (ScenarioDay2 /\ action' = "EXIT" /\ bar'.price = 99800) =>
                (cash' = Yen(996020) /\ Last(equity_curve') = cash')
      ]_vars

\* C21 as amended.  The same scenario gives 20,000 units filled at 100.004 with
\* cash still 1,000,000 after day 1, cash 1,000,200 after day 2 (one day of swap
\* on 20,000 units is 2 * 100), and cash 996,120 with equity equal to cash after
\* day 3.
C21_Scenario ==
    [][ (script = "compound_backtest" /\ steps' = steps + 1) =>
          /\ (position = 0 /\ cash = Yen(1000000) /\ action' = "ENTRY"
              /\ bar'.price = 100000) =>
                (current_lot' = 20000 /\ buy_price' = 100004 /\ cash' = Yen(1000000)
                 /\ position' = 1)
          /\ (action = "ENTRY" /\ entry_balance = Yen(1000000) /\ buy_price = 100004
              /\ action' = "HOLD" /\ bar'.price = 100500) =>
                (cash' = Yen(1000200) /\ ScenarioDay2')
          /\ (ScenarioDay2 /\ action' = "EXIT" /\ bar'.price = 99800) =>
                (cash' = Yen(996120) /\ Last(equity_curve') = cash' /\ position' = 0)
      ]_vars

\* The third day of the scenario has been processed
C21_Witness ==
    /\ script = "compound_backtest"
    /\ action = "EXIT"
    /\ bar.price = 99800
    /\ entry_balance = Yen(1000000)
    /\ swap_accrued = Yen(200)
    /\ cash = Yen(996120)
    /\ Last(equity_curve) = cash


\* The loop variables of active_strategy_test.run_backtest after the first n
\* rows of the data set d
RECURSIVE ActiveStrategyReplay(_, _, _)
ActiveStrategyReplay(run, d, n) ==
    IF n = 0 THEN ActiveStrategyStart
    ELSE ActiveStrategyStep(run, d, n - 1, ActiveStrategyReplay(run, d, n - 1))

\* The data sets d and e have the same first n rows
AgreeOnRows(d, e, n) ==
    \A k \in 1..n : d.tnx[k] = e.tnx[k] /\ d.jpy[k] = e.jpy[k]

\* C22. No look-ahead: when two data sets agree on their rows 0..i, a run of
\* active_strategy_test over either of them has the same position, cash, units,
\* entry fill, trade counters, decision and equity sample after row i.
C22_NoLookAhead ==
    script \in ActiveStrategyRuns =>
        \A e \in DataSets :
            AgreeOnRows(closes, e, steps) =>
                LET r == ActiveStrategyReplay(script, e, steps)
                IN  /\ r.position = position
                    /\ r.cash = cash
                    /\ r.current_lot = current_lot
                    /\ r.buy_price = buy_price
                    /\ r.trades = trades
                    /\ r.action = action
                    /\ (steps > 0 => r.equity = <<Last(equity_curve)>>)

\* A run holds a position after all but the last two rows of a data set that has
\* a twin with the same rows so far and a different next row
C22_Witness ==
    /\ script \in ActiveStrategyRuns
    /\ steps = MaxFilterBars - 2
    /\ position = 1
    /\ \E e \in DataSets :
          /\ AgreeOnRows(closes, e, steps)
          /\ e.tnx[steps + 1] # closes.tnx[steps + 1]


\* The action table of main.check_and_execute: the decision for a held or
\* absent position, the daily rate signal and the 20-day trend filter
ActionTable(held, up, trend_ok) ==
    IF held THEN (IF up THEN "HOLD" ELSE "EXIT")
    ELSE IF up /\ trend_ok THEN "ENTRY" ELSE "WAIT"

SessionHoursJST == TRADE_START_HOUR .. (TRADE_END_HOUR - 1)

\* C24. No carry-over in the day-trade strategy: a day-trade position is opened
\* only by an invocation whose JST hour is in 10..17, and after any day-trade
\* invocation that runs at a JST hour outside 10..17 no OPEN day-trade position
\* remains in the store.  Stated for the invocations that get past their
\* market, configuration and data checks, which is the least the claim asks.
C24_NoCarryOver ==
    [][ ( /\ script = "daytrade"
          /\ steps' = steps + 1
          /\ action' \notin {"MARKET_CLOSED", "NO_CONFIG", "NO_DATA"} ) =>
          /\ (OpenRows(sim_daytrade_positions') \ OpenRows(sim_daytrade_positions) # {}) =>
                now'.hour \in SessionHoursJST
          /\ (now'.hour \notin SessionHoursJST) =>
                OpenRows(sim_daytrade_positions') = {}
      ]_vars


-----------------------------------------------------------------------------
(* Statistics: the dashboard queries of app.py and the result reducers of  *)
(* the backtests.  A quotient is kept exact as the record of its numerator *)
(* and its denominator; a denominator of 0 is Python's ZeroDivisionError.  *)

\* Python's `x or 0` on the result of an SQL SUM, <<>> for the NULL of no rows
OrZero(v) == IF v = <<>> THEN 0 ELSE v[1]

\* Python's `n or 1` on an SQL COUNT
OrOne(n) == IF n = 0 THEN 1 ELSE n

\* SELECT COUNT(*), SUM(CASE WHEN net_pnl > 0 THEN 1 ELSE 0 END)
\* FROM sim_trade_history (app.py lines 133-137)
SwingHistoryStats(history) ==
    [count |-> Len(history),
     wins  |-> IF history = <<>> THEN <<>>
               ELSE << Cardinality({k \in DOMAIN history : history[k].net_pnl > 0}) >>]

\* SELECT COUNT(*), SUM(CASE WHEN pnl > 0 THEN 1 ELSE 0 END)
\* FROM sim_daytrade_history (app.py lines 234-241)
DaytradeHistoryStats(history) ==
    [count |-> Len(history),
     wins  |-> IF history = <<>> THEN <<>>
               ELSE << Cardinality({k \in DOMAIN history : history[k].pnl > 0}) >>]

\* win_rate of app.api_history (lines 138-142)
api_history_win_rate(history) ==
    LET stats        == SwingHistoryStats(history)
        total_trades == stats.count
        wins         == OrZero(stats.wins)
    IN  IF total_trades > 0 THEN [num |-> wins * 100, den |-> total_trades]
        ELSE [num |-> 0, den |-> 1]

\* win_rate of api_daytrade_status dividing by the bare count
api_daytrade_status_win_rate_bare(config, history) ==
    LET stats == DaytradeHistoryStats(history)
    IN  IF config = <<>> THEN <<>>
        ELSE << [num |-> OrZero(stats.wins) * 100, den |-> stats.count] >>

\* win_rate of app.api_daytrade_status (line 265); <<>> when the config row is
\* missing and the handler returns before the statistics (lines 196-197)
api_daytrade_status_win_rate(config, history) ==
    LET stats == DaytradeHistoryStats(history)
    IN  IF config = <<>> THEN <<>>
        ELSE << [num |-> OrZero(stats.wins) * 100, den |-> OrOne(stats.count)] >>

\* win_rate of total_optimize.run_backtest (line 90)
total_optimize_win_rate(counters) ==
    IF counters.trades > 0 THEN [num |-> counters.wins * 100, den |-> counters.trades]
    ELSE [num |-> 0, den |-> 1]

\* The quotient r is a win rate of `wins` winners among `total` closed trades:
\* computed without a division by zero, 0 with no trades and the percentage
\* 100 * wins / total otherwise
IsWinRate(r, wins, total) ==
    /\ r.den # 0
    /\ total = 0 => r.num = 0
    /\ total > 0 => r.num * total = 100 * wins * r.den

MinOf(S) == CHOOSE x \in S : \A y \in S : x <= y

\* data['Equity'].cummax(): the running maximum of the samples
cummax(s) == [k \in DOMAIN s |-> MaxOf({s[j] : j \in 1..k})]

\* max_drawdown of compound_backtest and oanda_backtest:
\* (data['Equity'].cummax() - data['Equity']).max()
max_drawdown(s) == MaxOf({cummax(s)[k] - s[k] : k \in DOMAIN s})

\* list.index(max(equity_curve)): the first position of the largest sample
IndexOfMax(s) == MinOf({k \in DOMAIN s : s[k] = MaxOf({s[j] : j \in DOMAIN s})})

\* 'max_drawdown' of leverage_test.run_backtest (line 97): the largest sample
\* minus the smallest sample from the largest one on
lt_max_drawdown(s) ==
    LET top == MaxOf({s[j] : j \in DOMAIN s})
    IN  IF top > 0 THEN top - MinOf({s[j] : j \in IndexOfMax(s)..Len(s)}) ELSE 0

\* max_dd of total_optimize.run_backtest (line 91)
to_max_dd(counters) == counters.max_cash - counters.min_cash

\* The largest fall of a sample below the highest sample up to and including it
PeakToValley(s) ==
    MaxOf(UNION {{s[j] - s[k] : j \in 1..k} : k \in DOMAIN s})

\* C26. Maximum drawdown: the max_drawdown / max_dd a backtest reports is the
\* maximum, over its recorded samples, of the highest equity seen up to and
\* including the sample minus the equity at the sample.  total_optimize keeps no
\* samples, only the extremes of its cash; for it the claim is stated where the
\* samples are known without keeping them: while every closed trade has won, the
\* cash has never fallen and the maximum drawdown is 0.
C26_MaxDrawdown ==
    /\ (script \in {"compound_backtest", "oanda_backtest"} /\ equity_curve # <<>>) =>
          max_drawdown(equity_curve) = PeakToValley(equity_curve)
    /\ (script = "leverage_test" /\ trades # <<>>) =>
          lt_max_drawdown(equity_curve) = PeakToValley(equity_curve)
    /\ (script = "total_optimize" /\ trades.wins = trades.trades) =>
          to_max_dd(trades) = 0


\* The hour of the week of a wall-clock reading, and the whole hours from the
\* reading s to the reading t of the same week (the readings carry no minutes,
\* so the time elapsed between them is within one hour of this)
HourOfWeek(t) == t.weekday * HoursPerDay + t.hour
HoursBetween(s, t) == (HourOfWeek(t) - HourOfWeek(s)) % (7 * HoursPerDay)

\* C27. Swap is prorated over elapsed time: the swap_total of an open swing
\* position grows between two invocations by SWAP_LONG per day per 10,000 units
\* times units / 10,000 times the wall-clock time elapsed between them, whatever
\* the number of invocations.  With clock readings in whole hours the growth lies
\* strictly within one hour's swap of the swap for the hours between the readings,
\* and is 0 when no time has passed.
C27_SwapProrated ==
    [][ ( /\ script = "swing"
          /\ steps' = steps + 1
          /\ action \in {"ENTRY", "HOLD"}
          /\ action' \in {"HOLD", "EXIT"} ) =>
          LET p      == get_current_position(sim_positions)[1]
              grown  == sim_positions'[p.id].swap_total - p.swap_total
              d      == HoursBetween(now, now')
          IN  /\ grown >= 0
              /\ grown > calculate_swap(p.units, d - 1)
              /\ grown < calculate_swap(p.units, d + 1)
      ]_vars


\* C28. Swap accrues only on HOLD steps: the step that opens a position and the
\* step that closes it add no swap to the position's running total, in the daily
\* backtests (where the swap goes to cash) and in the live swing runner (where it
\* goes to the row's swap_total) alike; a HOLD step adds one period's swap.
C28_SwapOnlyOnHold ==
    [][ /\ (script \in DailyBacktests /\ steps' = steps + 1) =>
              /\ action' = "ENTRY" => (cash' = cash /\ swap_accrued' = 0)
              /\ action' = "EXIT" =>
                    (cash' = cash + Jpy(bar'.price - buy_price, DailyUnits)
                     /\ swap_accrued' = swap_accrued)
              /\ action' = "HOLD" => swap_accrued' > swap_accrued
        /\ (script = "swing" /\ steps' = steps + 1) =>
              /\ action' = "ENTRY" =>
                    get_current_position(sim_positions')[1].swap_total = 0
              /\ action' = "EXIT" =>
                    LET p == get_current_position(sim_positions)[1]
                    IN  /\ sim_positions'[p.id].swap_total = p.swap_total
                        /\ Last(sim_trade_history').swap_total = p.swap_total
              /\ action' = "HOLD" =>
                    LET p == get_current_position(sim_positions)[1]
                    IN  sim_positions'[p.id].swap_total > p.swap_total
      ]_vars


\* The runs that count or list their closed trades, and the number of trades a
\* run has recorded (len(trades), or the counter `trades`)
TradeRecordingRuns == SessionScripts \cup TrendFilterRuns \cup ActiveStrategyRuns
TradeCount(t) ==
    IF script \in {"scalp_backtest", "daytrade_optimize", "leverage_test"} THEN Len(t)
    ELSE t.trades

\* A live store whose trades match its closures: one trade per position row ever
\* inserted, less the one that is still OPEN
StoreTradesMatch(positions, history) ==
    /\ Cardinality(OpenRows(positions)) <= 1
    /\ Len(history) = Len(positions) - Cardinality(OpenRows(positions))

\* C29. Trades match closures: after any sequence of backtest bars or of whole
\* live invocations the number of recorded trades is the number of positions
\* ever opened, minus one if a position is open; every OPEN -> FLAT transition
\* records exactly one trade and no trade is recorded without one.
C29_TradesMatchClosures ==
    [][ /\ (script \in TradeRecordingRuns /\ steps' = steps + 1) =>
              IF position = 1 /\ position' = 0
              THEN TradeCount(trades') = TradeCount(trades) + 1
              ELSE TradeCount(trades') = TradeCount(trades)
        /\ (script = "swing" /\ steps' = steps + 1) =>
              /\ StoreTradesMatch(sim_positions', sim_trade_history')
              /\ IF OpenRows(sim_positions) # {} /\ OpenRows(sim_positions') = {}
                 THEN Len(sim_trade_history') = Len(sim_trade_history) + 1
                 ELSE sim_trade_history' = sim_trade_history
        /\ (script = "daytrade" /\ steps' = steps + 1) =>
              /\ StoreTradesMatch(sim_daytrade_positions', sim_daytrade_history')
              /\ IF OpenRows(sim_daytrade_positions) # {}
                    /\ OpenRows(sim_daytrade_positions') = {}
                 THEN Len(sim_daytrade_history') = Len(sim_daytrade_history) + 1
                 ELSE sim_daytrade_history' = sim_daytrade_history
      ]_vars

\* The swing store after a second position was opened: two position rows, one
\* of them closed and recorded as the only trade
C29_Witness ==
    /\ script = "swing"
    /\ Len(sim_positions) = 2
    /\ Cardinality(OpenRows(sim_positions)) = 1
    /\ Len(sim_trade_history) = 1
    /\ action = "ENTRY"


\* The backtests that keep an equity curve
EquityCurveRuns == MarkedToMarketRuns \cup {"daytrade_optimize", "leverage_test"}

\* C30. One equity sample per step: every bar a backtest processes appends
\* exactly one sample to its equity curve, and every live invocation that
\* executes a step appends exactly one sample to the equity log: a swing
\* invocation that runs its decision, and a day-trade invocation that opens,
\* holds or closes a position.
C30_OneSamplePerStep ==
    [][ /\ (script \in EquityCurveRuns /\ steps' = steps + 1) =>
              (Len(equity_curve') = Len(equity_curve) + 1
               /\ SubSeq(equity_curve', 1, Len(equity_curve)) = equity_curve)
        /\ (script = "swing" /\ steps' = steps + 1 /\ action' \in LiveDecisions) =>
              (Len(sim_equity_log') = Len(sim_equity_log) + 1
               /\ SubSeq(sim_equity_log', 1, Len(sim_equity_log)) = sim_equity_log)
        /\ (script = "daytrade" /\ steps' = steps + 1
            /\ action' \in {"ENTRY", "HOLD"} \cup DayCloseActions) =>
              (Len(sim_equity_log') = Len(sim_equity_log) + 1
               /\ SubSeq(sim_equity_log', 1, Len(sim_equity_log)) = sim_equity_log)
      ]_vars


\* C31. Mark-to-market in the session backtests: every equity_curve sample that
\* daytrade_optimize and leverage_test record while a position is open is the
\* cash plus (bar price - entry price) * units.
C31_SessionMarkToMarket ==
    [][ ( /\ script \in {"daytrade_optimize", "leverage_test"}
          /\ steps' = steps + 1
          /\ position' = 1 ) =>
          Last(equity_curve') = cash' + Jpy(bar'.price - buy_price', current_lot')
      ]_vars


\* The log `after` keeps every row of the log `before` as it was
RowsKept(before, after) ==
    /\ Len(after) >= Len(before)
    /\ SubSeq(after, 1, Len(before)) = before

\* The positions table `after` keeps every CLOSED row of `before` as it was and
\* drops no row
ClosedRowsKept(before, after) ==
    /\ Len(after) >= Len(before)
    /\ \A k \in DOMAIN before : before[k].status = "CLOSED" => after[k] = before[k]

\* C32. Append-only records: no step of a live runner updates or deletes an
\* existing trade-history row or equity-log row, and a position row whose status
\* is CLOSED is never written again, under any sequence of whole invocations.
C32_AppendOnly ==
    [][ (script \in {"swing", "daytrade"} /\ steps' = steps + 1) =>
          /\ RowsKept(sim_trade_history, sim_trade_history')
          /\ RowsKept(sim_equity_log, sim_equity_log')
          /\ RowsKept(sim_daytrade_history, sim_daytrade_history')
          /\ ClosedRowsKept(sim_positions, sim_positions')
          /\ ClosedRowsKept(sim_daytrade_positions, sim_daytrade_positions')
      ]_vars

\* The swing runner has run its decision again after it closed a position and
\* recorded the trade
C32_Witness ==
    /\ script = "swing"
    /\ Len(sim_equity_log) = 3
    /\ Len(sim_trade_history) = 1
    /\ sim_positions[1].status = "CLOSED"
    /\ action \in {"WAIT", "ENTRY"}


\* C33. No entry at the session boundary: in the session backtests a position is
\* never opened on a bar for which the forced-close condition
\* hour_utc >= TRADE_END_UTC holds, so no position is opened and force-closed on
\* the next bar of the same closing hour.
C33_NoEntryAtBoundary ==
    [][ (script \in SessionScripts /\ steps' = steps + 1) =>
          /\ (position = 0 /\ position' = 1) => ~(bar'.hour_utc >= TRADE_END_UTC)
          /\ (action = "ENTRY" /\ action' = "FORCED") => bar'.hour_utc # bar.hour_utc
      ]_vars


\* C34. Every day-trade position is eventually closed: with the runner started
\* at least once in every clock hour and every invocation getting its market
\* data, an OPEN day-trade position is only ever left behind by an invocation
\* whose JST hour is in 10..17, so the first invocation at an hour >= 18 of that
\* day has closed it, and every OPEN position is eventually CLOSED.
C34_EventuallyClosed ==
    /\ [](OpenRows(sim_daytrade_positions) # {} => now.hour \in SessionHoursJST)
    /\ (OpenRows(sim_daytrade_positions) # {})
          ~> (OpenRows(sim_daytrade_positions) = {})

\* The 18:00 invocation of the schedule force-closed the position of the day
C34_Witness ==
    /\ script \in HourlyRunners
    /\ now.hour = TRADE_END_HOUR
    /\ action = "FORCE_CLOSE"
    /\ OpenRows(sim_daytrade_positions) = {}
    /\ Len(sim_daytrade_history) >= 1


-----------------------------------------------------------------------------
(* Closed market *)

\* C35: while the FX market is closed (Sunday, Saturday from 07:00 JST, Monday
\* before 07:00 JST) an invocation of any live entry point (main.check_and_execute,
\* main.check_daytrade, main_daytrade.check_and_execute) leaves every table as it
\* was: no position row is inserted, updated or closed, no balance changes and no
\* trade or equity row is appended.
C35_ClosedMarketNoOp ==
    [][ \A t \in Times :
          (/\ ~is_market_open(t)
           /\ \/ \E feed \in Feeds : CheckAndExecute(t, feed)
              \/ \E feed \in DayFeeds : CheckDaytrade(t, feed)
              \/ \E feed \in DayFeeds : MdCheckAndExecute(t, feed))
          => UNCHANGED <<swingTables, dayTables>>
      ]_vars


-----------------------------------------------------------------------------
(* The two day-trade runners *)

\* The invocations the two day-trade runners are compared on: the market is open,
\* a configuration row exists and yfinance gives both runners a price and a trend
RunnersComparable(t, feed) ==
    /\ is_market_open(t)
    /\ sim_daytrade_config # <<>>
    /\ feed.daily_len > 0
    /\ get_trend(feed) # <<>>

\* What main.check_daytrade writes from the present tables at t with feed
CheckDaytradeOutcome(t, feed) ==
    DaytradeWrite(sim_daytrade_positions, sim_daytrade_history, sim_daytrade_config,
                  sim_daytrade_config[1].current_balance,
                  get_current_position(sim_daytrade_positions), feed.close, feed, t)

\* What main_daytrade.check_and_execute writes from the present tables at t with feed
MdCheckAndExecuteOutcome(t, feed) ==
    MdWrite(sim_daytrade_positions, sim_daytrade_history, sim_daytrade_config,
            sim_daytrade_config[1].current_balance,
            get_current_position(sim_daytrade_positions), get_trend(feed)[1], t)

\* The tables and the decision an invocation has left behind
DaytradeOutcomeNow ==
    [positions |-> sim_daytrade_positions, history |-> sim_daytrade_history,
     config |-> sim_daytrade_config, action |-> action]

\* C36: from the same sim_daytrade tables, with a configuration row present and the
\* market open, and given the same price, trend and wall-clock hour, an invocation
\* of main.check_daytrade leaves exactly the position rows (status, entry price,
\* units), the balance and the trade-history rows (action, pnl) that
\* main_daytrade.check_and_execute would leave, and the other way round, at every
\* step.
C36_RunnersEquivalent ==
    [][ \A t \in Times, feed \in DayFeeds :
          RunnersComparable(t, feed) =>
            /\ CheckDaytrade(t, feed) => DaytradeOutcomeNow' = MdCheckAndExecuteOutcome(t, feed)
            /\ MdCheckAndExecute(t, feed) => DaytradeOutcomeNow' = CheckDaytradeOutcome(t, feed)
      ]_vars

C36_Witness ==
    /\ script = "daytrade"
    /\ is_market_open(now)
    /\ sim_daytrade_config # <<>>
    /\ market # <<>>
    /\ market[1].runner = "check_and_execute"
    /\ action = "TAKE_PROFIT"
    /\ Len(sim_daytrade_history) >= 1
    /\ OpenRows(sim_daytrade_positions) = {}


-----------------------------------------------------------------------------
(* The minimum-balance guard of the session backtests.  With the prices of   *)
(* Prices a run never loses enough for the guard to matter, so the guarded   *)
(* runs are also walked over data sets whose close can collapse within one   *)
(* bar: from an entry at 100.504 a close of 82.500 leaves 99,800 yen (under  *)
(* the guard, above the bankruptcy stop) and a close of 80.000 leaves less   *)
(* than nothing.                                                             *)

CrashPrices == {100000, 100500, 82500, 80000}

InitCrash == InitOf({"total_optimize", "leverage_test"}, <<>>)

NextCrash ==
    \/ \E price \in CrashPrices, hour_utc \in SessionHours : LeverageTestBar(price, hour_utc)
    \/ \E price \in CrashPrices, hour_utc \in SessionHours : TotalOptimizeBar(price, hour_utc)

SpecCrash == InitCrash /\ [][NextCrash]_vars

\* C37: in run_backtest of total_optimize and of leverage_test the cash balance is
\* strictly greater than 100,000 yen whenever a position is open; no step opens a
\* position from a balance of 100,000 yen or less; and in total_optimize the
\* engine is flat whenever the balance is under the bankruptcy stop of 50,000 yen,
\* which is when the loop breaks.
C37_MinimumBalance ==
    /\ [](position = 1 => cash > Yen(100000))
    /\ [][(position = 0 /\ position' = 1) => cash > Yen(100000)]_vars
    /\ []((script = "total_optimize" /\ cash < Yen(50000)) => position = 0)

\* An entry has just been refused by the guard alone: the bar is inside the
\* session and the trend is up, but an earlier closure has left 100,000 yen or less
C37_Witness ==
    /\ script \in {"total_optimize", "leverage_test"}
    /\ Len(closes) = Lookback + 1
    /\ position = 0
    /\ action = "WAIT"
    /\ cash <= Yen(100000)
    /\ cash >= Yen(50000)
    /\ TRADE_START_UTC <= bar.hour_utc /\ bar.hour_utc <= TRADE_END_UTC
    /\ lt_get_trend(closes, steps - 1) = 1

=============================================================================
